---- MODULE Spec2Model ----
(***************************************************************************)
(* Model of the block-to-exercise transformation of the coach MCP server   *)
(* (src/src/coach_mcp/server.py: _transform_block_to_exercises and         *)
(* _transform_block_plan).                                                 *)
(*                                                                         *)
(* Python values are tagged records: t is the Python type, and i, s, l, m  *)
(* hold the payload of an int, a str, a list and a dict.  A str is a       *)
(* sequence of one-character strings, so formatting, joining and substring *)
(* tests are computed character by character.  A dict is a function whose  *)
(* DOMAIN is the set of keys that are present.                             *)
(***************************************************************************)
EXTENDS Integers, Sequences, FiniteSets, TLC

VARIABLES
    pc,           \* "input" before the call, "done" after it
    block,        \* argument of _transform_block_to_exercises
    block_index,  \* argument of _transform_block_to_exercises
    result,       \* what _transform_block_to_exercises returned or raised
    plan_data,    \* argument of _transform_block_plan
    plan,         \* what _transform_block_plan returned or raised
    script_plan,  \* what transform_plan of bin/ingest_plans.py returned or raised
    workout_plans, \* table workout_plans: date |-> row, for the dates that have a row
    now,          \* the clock get_utc_now reads
    call,         \* the MCP tool call that ran last, with its arguments
    response,     \* what that call returned or raised
    before,       \* table workout_plans as it was when that call started
    workout_logs, \* table workout_logs: date |-> row, for the dates that have a row
    clients,      \* table clients: id |-> row, for the ids that have a row
    meta_sync,    \* table meta_sync: key |-> value
    request,      \* the HTTP request that ran last, with its parameters
    reply,        \* what that request was answered with
    logs_before,  \* table workout_logs as it was when the last call or request started
    clients_before, \* table clients as it was when the last call or request started
    uploaded,     \* date |-> the log of the most recent upload for the date
    registered,   \* client id |-> the name of its most recent registration
    server_times, \* the serverTime values the sync responses gave so far
    session,      \* per MCP session: the tool call it is in and how far the call got
    sync_pc,      \* "idle", or "stamped" while the client's GET sync holds its `now`
    sync_stamp,   \* the clock reading the client's GET sync in flight took
    client_sync_time, \* the serverTime of the client's previous GET sync, or None
    delivered,    \* the <<date, last_modified>> of the plans the client was sent
    unsynced      \* the dates written since the client's last sync read the table

vars == <<pc, block, block_index, result, plan_data, plan, script_plan,
          workout_plans, now, call, response, before, workout_logs,
          clients, meta_sync, request, reply, logs_before, clients_before,
          uploaded, registered, server_times,
          session, sync_pc, sync_stamp, client_sync_time, delivered, unsynced>>

\* The variables of the HTTP sync server, untouched by the MCP tools.
syncVars == <<clients, meta_sync, request, reply, logs_before, clients_before,
              uploaded, registered, server_times>>

\* The variables of the MCP tool machine, untouched by the transformer calls.
storeVars == <<workout_plans, now, call, response, before, workout_logs>>

\* The variables of the transformer calls, untouched by the MCP tool machine.
transformVars == <<pc, block, block_index, result, plan_data, plan, script_plan>>

\* The variables of calls and requests that run at the same time.
raceVars == <<session, sync_pc, sync_stamp, client_sync_time, delivered, unsynced>>

----------------------------------------------------------------------------
(* Python values *)

\* The dict without keys.
EmptyDict == [k \in {} |-> 0]

\* Every value carries every payload field, so that two values of different
\* Python types still compare field by field.
PyVal(type, int, str, list, dict) == [t |-> type, i |-> int, s |-> str, l |-> list, m |-> dict]

PyNone == PyVal("none", 0, <<>>, <<>>, EmptyDict)
PyInt(n) == PyVal("int", n, <<>>, <<>>, EmptyDict)
PyStr(s) == PyVal("str", 0, s, <<>>, EmptyDict)
PyList(l) == PyVal("list", 0, <<>>, l, EmptyDict)
PyDict(d) == PyVal("map", 0, <<>>, <<>>, d)
PyTrue == PyVal("bool", 1, <<>>, <<>>, EmptyDict)

\* Marks a key that the generated input dict does not carry.
Absent == PyVal("absent", 0, <<>>, <<>>, EmptyDict)

\* The dict over `keys` that has f[k] under every key whose value is not Absent.
MkDict(keys, f) == [k \in {x \in keys : f[x] # Absent} |-> f[k]]

\* dict.get(key, default)
Get(d, key, default) == IF key \in DOMAIN d THEN d[key] ELSE default

\* bool(value)
Truthy(x) ==
    CASE x.t = "none" -> FALSE
      [] x.t = "int" -> x.i # 0
      [] x.t = "str" -> Len(x.s) > 0
      [] x.t = "list" -> Len(x.l) > 0
      [] x.t = "map" -> DOMAIN x.m # {}

\* isinstance(value, int)
IsInt(x) == x.t = "int"

Digit == <<"0", "1", "2", "3", "4", "5", "6", "7", "8", "9">>

RECURSIVE NatToStr(_)
NatToStr(n) ==
    IF n < 10 THEN <<Digit[n + 1]>>
    ELSE NatToStr(n \div 10) \o <<Digit[(n % 10) + 1]>>

\* str(n) of an int
IntToStr(n) == IF n < 0 THEN <<"-">> \o NatToStr(0 - n) ELSE NatToStr(n)

\* str(value) and the f-string "{value}", for None, int and str
Format(x) ==
    CASE x.t = "str" -> x.s
      [] x.t = "int" -> IntToStr(x.i)
      [] x.t = "none" -> <<"N", "o", "n", "e">>

\* `sub in s` of two strs
Contains(s, sub) ==
    \/ Len(sub) = 0
    \/ \E i \in 1..(Len(s) - Len(sub) + 1) : SubSeq(s, i, i + Len(sub) - 1) = sub

\* The outcome of a call: a returned value, or the exception it raised.
Return(x) == [ok |-> TRUE, exc |-> "", val |-> x]
Raise(e) == [ok |-> FALSE, exc |-> e, val |-> <<>>]

\* iter(value): the sequence a for loop runs over, or TypeError
Iterate(x) ==
    CASE x.t = "list" -> Return(x.l)
      [] x.t = "str" -> Return([i \in 1..Len(x.s) |-> PyStr(<<x.s[i]>>)])
      [] x.t \in {"none", "int"} -> Raise("TypeError")

RECURSIVE JoinStrs(_, _)
JoinStrs(sep, strs) ==
    IF Len(strs) = 0 THEN <<>>
    ELSE IF Len(strs) = 1 THEN strs[1]
    ELSE strs[1] \o sep \o JoinStrs(sep, Tail(strs))

\* sep.join(items): TypeError unless every item is a str
Join(sep, items) ==
    IF \E i \in 1..Len(items) : items[i].t # "str" THEN Raise("TypeError")
    ELSE Return(JoinStrs(sep, [i \in 1..Len(items) |-> items[i].s]))

\* sep.join(value) of any Python value
JoinValue(sep, x) ==
    IF Iterate(x).ok THEN Join(sep, Iterate(x).val) ELSE Iterate(x)

----------------------------------------------------------------------------
(* String literals of the code *)

S_warmup == <<"w", "a", "r", "m", "u", "p">>
S_circuit == <<"c", "i", "r", "c", "u", "i", "t">>
S_power == <<"p", "o", "w", "e", "r">>
S_strength == <<"s", "t", "r", "e", "n", "g", "t", "h">>
S_accessory == <<"a", "c", "c", "e", "s", "s", "o", "r", "y">>
S_checklist == <<"c", "h", "e", "c", "k", "l", "i", "s", "t">>
S_interval == <<"i", "n", "t", "e", "r", "v", "a", "l">>
S_duration == <<"d", "u", "r", "a", "t", "i", "o", "n">>
S_Unknown == <<"U", "n", "k", "n", "o", "w", "n">>
S_Warmup == <<"W", "a", "r", "m", "u", "p">>
S_VO2 == <<"V", "O", "2">>
S_HARD == <<"H", "A", "R", "D">>
S_VO2MaxIntervals ==
    <<"V", "O", "2", " ", "M", "a", "x", " ", "I", "n", "t", "e", "r", "v", "a", "l", "s">>
S_Zone2Cardio ==
    <<"Z", "o", "n", "e", " ", "2", " ", "C", "a", "r", "d", "i", "o">>
S_Tempo == <<"T", "e", "m", "p", "o", " ">>
S_Workout == <<"W", "o", "r", "k", "o", "u", "t">>
S_Home == <<"H", "o", "m", "e">>
S_Foundation == <<"F", "o", "u", "n", "d", "a", "t", "i", "o", "n">>
DefaultSets == 3
DefaultTotalDuration == 60

----------------------------------------------------------------------------
(* _transform_block_to_exercises *)

\* The outcome of a loop whose iterations have these outcomes: the exception
\* of the first iteration that raised, else the list of the values.
Collect(outcomes) ==
    IF \E i \in 1..Len(outcomes) : ~outcomes[i].ok
    THEN LET first == CHOOSE i \in 1..Len(outcomes) :
                 /\ ~outcomes[i].ok
                 /\ \A j \in 1..(i - 1) : outcomes[j].ok
         IN Raise(outcomes[first].exc)
    ELSE Return([i \in 1..Len(outcomes) |-> outcomes[i].val])

\* A warmup item that renders int reps like str reps, without the "x".
WarmupItem_NoTimes(ex) ==
    IF ex.t # "map" THEN Raise("AttributeError")
    ELSE LET name == Get(ex.m, "name", PyStr(S_Unknown))
             reps == Get(ex.m, "reps", PyStr(<<>>))
         IN IF Truthy(reps)
            THEN Return(PyStr(Format(name) \o <<" ">> \o Format(reps)))
            ELSE Return(name)

\* One iteration of the warmup loop: the checklist item of sub-exercise ex.
WarmupItem(ex) ==
    IF ex.t # "map" THEN Raise("AttributeError")
    ELSE LET name == Get(ex.m, "name", PyStr(S_Unknown))
             reps == Get(ex.m, "reps", PyStr(<<>>))
         IN IF Truthy(reps)
            THEN IF IsInt(reps)
                 THEN Return(PyStr(Format(name) \o <<" ", "x">> \o Format(reps)))
                 ELSE Return(PyStr(Format(name) \o <<" ">> \o Format(reps)))
            ELSE Return(name)

\* A warmup name without the "Warmup" fallback.
WarmupName_NoFallback(title) == title

\* title or "Warmup"
WarmupName(title) == IF Truthy(title) THEN title ELSE PyStr(S_Warmup)

\* The warmup branch: one checklist exercise aggregating the sub-exercises.
WarmupExercises(blk, index) ==
    LET title == Get(blk, "title", PyStr(<<>>))
        subs == Iterate(blk["exercises"])
        rendered == IF subs.ok
                    THEN Collect([i \in 1..Len(subs.val) |-> WarmupItem(subs.val[i])])
                    ELSE subs
    IN IF ~rendered.ok THEN rendered
       ELSE Return(<<[id |-> PyStr(S_warmup \o <<"_">> \o IntToStr(index)),
                      name |-> WarmupName(title),
                      type |-> PyStr(S_checklist),
                      items |-> PyList(rendered.val)]>>)

\* ex_type of a per-item exercise
ExerciseType(block_type) ==
    IF block_type \in {PyStr(S_circuit), PyStr(S_power)} THEN PyStr(S_circuit)
    ELSE IF block_type \in {PyStr(S_strength), PyStr(S_accessory)} THEN PyStr(S_strength)
    ELSE PyStr(S_strength)

\* exercise["target_sets"], or Absent when the key is not set
TargetSets(ex) ==
    LET sets == Get(ex, "sets", PyNone)
    IN IF Truthy(sets) THEN (IF IsInt(sets) THEN sets ELSE PyInt(DefaultSets))
       ELSE Absent

\* exercise["target_reps"], or Absent when the key is not set
TargetReps(ex) ==
    LET reps == Get(ex, "reps", PyNone)
    IN IF Truthy(reps) THEN PyStr(Format(reps)) ELSE Absent

\* Rest guidance appended whatever the block type.
AppendsRestGuidance_AnyBlock(block_type, rest_guidance) == Truthy(rest_guidance)

\* Whether the block's rest_guidance is appended to an exercise's notes.
AppendsRestGuidance(block_type, rest_guidance) ==
    Truthy(rest_guidance) /\ block_type = PyStr(S_strength)

\* The list `notes` built for one sub-exercise.
GuidanceParts(block_type, rest_guidance, ex) ==
    LET tempo == Get(ex, "tempo", PyNone)
        load_guide == Get(ex, "load_guide", PyNone)
        notes == Get(ex, "notes", PyNone)
    IN (IF Truthy(tempo) THEN <<PyStr(S_Tempo \o Format(tempo))>> ELSE <<>>)
       \o (IF Truthy(load_guide) THEN <<load_guide>> ELSE <<>>)
       \o (IF Truthy(notes) THEN <<notes>> ELSE <<>>)
       \o (IF AppendsRestGuidance(block_type, rest_guidance)
           THEN <<rest_guidance>> ELSE <<>>)

\* An exercise id numbered from 0 within the block.
ExerciseId_ZeroBased(block_type, index, i) ==
    Format(block_type) \o <<"_">> \o IntToStr(index) \o <<"_">> \o IntToStr(i)

\* An exercise id without the block index.
ExerciseId_NoBlockIndex(block_type, index, i) ==
    Format(block_type) \o <<"_">> \o IntToStr(i + 1)

\* exercise_id of the sub-exercise at 0-based position i
ExerciseId(block_type, index, i) ==
    Format(block_type) \o <<"_">> \o IntToStr(index) \o <<"_">> \o IntToStr(i + 1)

\* Keys a per-item exercise can carry.
ItemKeys == {"id", "name", "type", "target_sets", "target_reps", "guidance_note"}

\* One iteration of the per-item loop: the exercise of sub-exercise ex at
\* 0-based position i.
ItemExercise(blk, index, i, ex) ==
    IF ex.t # "map" THEN Raise("AttributeError")
    ELSE LET block_type == Get(blk, "block_type", PyStr(<<>>))
             rest_guidance == Get(blk, "rest_guidance", PyStr(<<>>))
             parts == GuidanceParts(block_type, rest_guidance, ex.m)
             note == Join(<<".", " ">>, parts)
             fields == [id |-> PyStr(ExerciseId(block_type, index, i)),
                        name |-> Get(ex.m, "name", PyStr(S_Unknown)),
                        type |-> ExerciseType(block_type),
                        target_sets |-> TargetSets(ex.m),
                        target_reps |-> TargetReps(ex.m),
                        guidance_note |-> IF Len(parts) > 0 /\ note.ok
                                          THEN PyStr(note.val) ELSE Absent]
         IN IF Len(parts) > 0 /\ ~note.ok THEN note
            ELSE Return(MkDict(ItemKeys, fields))

\* The per-item branch: one exercise per sub-exercise.
ItemExercises(blk, index) ==
    LET subs == Iterate(blk["exercises"])
    IN IF ~subs.ok THEN subs
       ELSE Collect([k \in 1..Len(subs.val) |-> ItemExercise(blk, index, k - 1, subs.val[k])])

\* An interval test that looks for "VO2" only.
IsInterval_OnlyVO2(instructions_text) == Contains(instructions_text, S_VO2)

\* Whether the joined instructions select the interval exercise.
IsInterval(instructions_text) ==
    Contains(instructions_text, S_VO2) \/ Contains(instructions_text, S_HARD)

\* The instruction (cardio) branch: one exercise for the whole block.
InstructionExercises(blk, index) ==
    LET block_type == Get(blk, "block_type", PyStr(<<>>))
        title == Get(blk, "title", PyStr(<<>>))
        duration == Get(blk, "duration_min", PyInt(0))
        instructions_text == JoinValue(<<" ">>, blk["instructions"])
        guidance == JoinValue(<<" ", "|", " ">>, blk["instructions"])
    IN IF ~instructions_text.ok THEN instructions_text
       ELSE Return(<<[id |-> PyStr(Format(block_type) \o <<"_">> \o IntToStr(index)
                                    \o <<"_", "1">>),
                      name |-> IF IsInterval(instructions_text.val)
                               THEN PyStr(S_VO2MaxIntervals)
                               ELSE IF Truthy(title) THEN title ELSE PyStr(S_Zone2Cardio),
                      type |-> IF IsInterval(instructions_text.val)
                               THEN PyStr(S_interval) ELSE PyStr(S_duration),
                      target_duration_min |-> duration,
                      guidance_note |-> PyStr(guidance.val)]>>)

\* Which branch of _transform_block_to_exercises a block dict takes.
Dispatch(blk) ==
    IF Get(blk, "block_type", PyStr(<<>>)) = PyStr(S_warmup) /\ "exercises" \in DOMAIN blk
    THEN "warmup"
    ELSE IF "exercises" \in DOMAIN blk THEN "items"
    ELSE IF "instructions" \in DOMAIN blk THEN "instructions"
    ELSE "none"

\* _transform_block_to_exercises(block, block_index): the list of exercises,
\* or the exception raised.  b is the Python value passed as `block`.
_transform_block_to_exercises(b, index) ==
    IF b.t # "map" THEN Raise("AttributeError")
    ELSE CASE Dispatch(b.m) = "warmup" -> WarmupExercises(b.m, index)
           [] Dispatch(b.m) = "items" -> ItemExercises(b.m, index)
           [] Dispatch(b.m) = "instructions" -> InstructionExercises(b.m, index)
           [] Dispatch(b.m) = "none" -> Return(<<>>)

----------------------------------------------------------------------------
(* _transform_block_plan *)

\* transformed_block of the block at 0-based position i, given its exercises.
TransformedBlock(blk, i, block_exercises) ==
    [block_index |-> PyInt(i),
     block_type |-> Get(blk, "block_type", PyStr(<<>>)),
     title |-> Get(blk, "title", PyStr(<<>>)),
     duration_min |-> Get(blk, "duration_min", PyNone),
     rest_guidance |-> Get(blk, "rest_guidance", PyStr(<<>>)),
     exercises |-> block_exercises]

RECURSIVE Flatten_Reversed(_)
\* A flat list that puts each block's exercises in front of the earlier ones.
Flatten_Reversed(lists) ==
    IF Len(lists) = 0 THEN <<>> ELSE Flatten_Reversed(Tail(lists)) \o lists[1]

RECURSIVE Flatten(_)
\* exercises.extend(block_exercises), block after block
Flatten(lists) ==
    IF Len(lists) = 0 THEN <<>> ELSE lists[1] \o Flatten(Tail(lists))

\* A day_name read from the input's `day_name` key instead of `theme`.
DayName_FromDayName(data) == Get(data, "day_name", PyStr(S_Workout))

\* plan_data.get("theme", "Workout")
DayName(data) == Get(data, "theme", PyStr(S_Workout))

\* _transform_block_plan(plan_data): the plan dict, or the exception raised.
\* The i-th iteration calls _transform_block_to_exercises(block, i), 0-based.
_transform_block_plan(data) ==
    LET blocks == Iterate(Get(data, "blocks", PyList(<<>>)))
        per_block == IF blocks.ok
                     THEN Collect([k \in 1..Len(blocks.val) |->
                              _transform_block_to_exercises(blocks.val[k], k - 1)])
                     ELSE blocks
    IN IF ~per_block.ok THEN per_block
       ELSE Return(
           [day_name |-> DayName(data),
            location |-> Get(data, "location", PyStr(S_Home)),
            phase |-> Get(data, "phase", PyStr(S_Foundation)),
            total_duration_min |-> Get(data, "total_duration_min", PyInt(DefaultTotalDuration)),
            blocks |-> [k \in 1..Len(blocks.val) |->
                           TransformedBlock(blocks.val[k].m, k - 1, per_block.val[k])],
            exercises |-> Flatten(per_block.val)])

----------------------------------------------------------------------------
(* Inputs *)

\* Bounds of the generated inputs.
MaxEx == 2
MaxInstr == 2

SeqsUpTo(S, n) == UNION {[1..k -> S] : k \in 0..n}

N_KB == <<"K", "B">>
N_PushUps == <<"P", "u", "s", "h", "-", "u", "p", "s">>
N_DBPushUp == <<"D", "B", " ", "P", "u", "s", "h", "-", "u", "p">>
N_WallSit == <<"W", "a", "l", "l", " ", "S", "i", "t">>
N_Row == <<"R", "o", "w">>
E_bodyweight == <<"b", "o", "d", "y", "w", "e", "i", "g", "h", "t">>
E_band == <<"b", "a", "n", "d">>
E_dumbbell == <<"d", "u", "m", "b", "b", "e", "l", "l">>
E_trx == <<"t", "r", "x">>
R_10 == <<"1", "0">>
R_30sec == <<"3", "0", " ", "s", "e", "c">>
R_20SEC == <<"2", "0", " ", "S", "E", "C">>
R_8leg == <<"8", "/", "l", "e", "g">>
T_311 == <<"3", "-", "1", "-", "1">>
L_Heavy == <<"H", "v">>
X_Slow == <<"S", "l", "o", "w">>
G_Rest == <<"R", "e", "s", "t">>
B_mobility == <<"m", "o", "b">>
B_cardio == <<"c", "a", "r", "d", "i", "o">>
Title_T == <<"T", "1">>
I_Easy == <<"E", "a", "s", "y">>
I_4xVO2 == <<"4", "x", "V", "O", "2">>
I_goHARD == <<"g", "o", " ", "H", "A", "R", "D">>
I_hard == <<"h", "a", "r", "d">>
I_V == <<"V">>
I_O2 == <<"O", "2">>

SubKeys == {"name", "sets", "reps", "tempo", "load_guide", "notes", "equipment"}

\* A sub-exercise dict; Absent leaves the key out.
Sub(name, sets, reps, tempo, load_guide, notes, equipment) ==
    PyDict(MkDict(SubKeys, [name |-> name, sets |-> sets, reps |-> reps,
                            tempo |-> tempo, load_guide |-> load_guide,
                            notes |-> notes, equipment |-> equipment]))

SetsValues == {Absent, PyInt(0), PyInt(2), PyStr(<<"3", "x">>)}
RepsValues ==
    {Absent, PyInt(0), PyInt(10), PyStr(<<>>), PyStr(R_10), PyStr(R_30sec), PyStr(R_20SEC),
     PyStr(R_8leg)}
NameValues ==
    {Absent, PyStr(N_KB), PyStr(N_PushUps), PyStr(N_DBPushUp), PyStr(N_WallSit)}
EquipmentValues ==
    {Absent, PyStr(E_bodyweight), PyStr(E_band), PyStr(E_dumbbell), PyStr(E_trx)}

SetsRepsSubs ==
    {Sub(PyStr(N_KB), s, r, Absent, Absent, Absent, Absent) :
        s \in SetsValues, r \in RepsValues}
GuidanceSubs ==
    {Sub(PyStr(N_Row), Absent, PyInt(5), t, l, n, Absent) :
        t \in {Absent, PyStr(<<>>), PyStr(T_311)},
        l \in {Absent, PyStr(L_Heavy)},
        n \in {Absent, PyStr(X_Slow)}}
EquipmentSubs ==
    {Sub(nm, Absent, PyInt(10), Absent, Absent, Absent, e) :
        nm \in NameValues, e \in EquipmentValues}

\* Sub-exercises as the block format documents them: dicts of str and int fields.
WellFormedSubs == SetsRepsSubs \cup GuidanceSubs \cup EquipmentSubs

\* Malformed sub-exercises: not a dict, or a guidance field that is not a str.
MalformedSubs ==
    {PyNone, PyInt(7), PyStr(<<"x">>),
     Sub(PyStr(N_KB), Absent, Absent, Absent, PyInt(5), Absent, Absent)}

\* The sub-exercises that lists of more than one element are built from.
CoreSubs ==
    {Sub(PyStr(N_PushUps), Absent, Absent, Absent, Absent, Absent, Absent),
     Sub(PyStr(N_KB), PyInt(2), PyStr(R_30sec), PyStr(T_311), Absent, Absent, Absent),
     Sub(Absent, Absent, PyInt(5), Absent, Absent, PyStr(X_Slow), Absent),
     Sub(PyStr(N_WallSit), Absent, PyStr(R_8leg), Absent, PyStr(L_Heavy), Absent,
         PyStr(E_bodyweight)),
     Sub(PyStr(N_Row), Absent, PyInt(0), Absent, Absent, Absent, Absent),
     PyNone}

ExerciseLists ==
    {PyList(l) : l \in SeqsUpTo(CoreSubs, MaxEx)}
    \cup {PyList(<<e>>) : e \in WellFormedSubs \cup MalformedSubs}

InstructionValues ==
    {PyStr(I_Easy), PyStr(I_4xVO2), PyStr(I_goHARD), PyStr(I_hard), PyStr(I_V),
     PyStr(I_O2), PyInt(4)}

InstructionLists ==
    {PyList(l) : l \in SeqsUpTo(InstructionValues, MaxInstr)}
    \cup {PyNone, PyStr(I_4xVO2)}

BlockTypes ==
    {Absent, PyStr(S_warmup), PyStr(S_strength), PyStr(S_accessory), PyStr(S_circuit),
     PyStr(S_power), PyStr(B_mobility)}
Titles == {Absent, PyStr(<<>>), PyStr(Title_T)}

BlockKeys ==
    {"block_type", "title", "rest_guidance", "duration_min", "rounds", "exercises",
     "instructions"}

\* A block dict; Absent leaves the key out.
Blk(block_type, title, rest_guidance, duration_min, rounds, exercises, instructions) ==
    PyDict(MkDict(BlockKeys,
                  [block_type |-> block_type, title |-> title,
                   rest_guidance |-> rest_guidance, duration_min |-> duration_min,
                   rounds |-> rounds, exercises |-> exercises,
                   instructions |-> instructions]))

\* Blocks that carry an `exercises` key (a list, or a malformed value).
BlocksWithExercises ==
    {Blk(bt, ti, rg, Absent, ro, exs, Absent) :
        bt \in BlockTypes, ti \in Titles, rg \in {Absent, PyStr(G_Rest)},
        ro \in {Absent, PyInt(4)}, exs \in ExerciseLists \cup {PyNone, PyInt(3)}}

\* Blocks that carry an `instructions` key, without `exercises` or with an
\* empty `exercises` list.
BlocksWithInstructions ==
    {Blk(bt, ti, Absent, du, Absent, exs, ins) :
        bt \in BlockTypes \cup {PyStr(B_cardio)}, ti \in Titles,
        du \in {Absent, PyInt(15)}, exs \in {Absent, PyList(<<>>)},
        ins \in InstructionLists}

\* Blocks that carry neither key.
BlocksWithNeither ==
    {Blk(bt, ti, Absent, Absent, Absent, Absent, Absent) :
        bt \in BlockTypes, ti \in Titles}

Blocks == BlocksWithExercises \cup BlocksWithInstructions \cup BlocksWithNeither

BlockIndexes == {0, 12}

\* The value of `result` and `plan` before the call has returned.
Pending == [ok |-> FALSE, exc |-> "pending", val |-> <<>>]

\* The arguments of a tool call; a tool leaves the ones it does not take at
\* these values.
NoCall ==
    [tool |-> "none", date |-> <<>>, exercise_id |-> <<>>, arg |-> PyNone,
     position |-> PyNone, start_date |-> <<>>, end_date |-> <<>>,
     plans |-> EmptyDict, transform_blocks |-> FALSE, days |-> 0]

\* No HTTP request.
NoRequest ==
    [endpoint |-> "none", client_id |-> <<>>, client_name |-> PyNone,
     last_sync_time |-> PyNone, logs |-> EmptyDict]

\* No HTTP response.
NoReply ==
    [status |-> 0, clientId |-> <<>>, plans |-> EmptyDict, logs |-> EmptyDict,
     serverTime |-> <<>>, appliedLogs |-> {}]

\* The HTTP sync server before any request, on empty tables.
NoRequestMade ==
    /\ clients = EmptyDict
    /\ meta_sync = EmptyDict
    /\ request = NoRequest
    /\ reply = NoReply
    /\ logs_before = workout_logs
    /\ clients_before = EmptyDict
    /\ uploaded = EmptyDict
    /\ registered = EmptyDict
    /\ server_times = {}

\* The MCP sessions that call tools at the same time.
Sessions == {"s1", "s2"}

\* A session that has not called a tool.
IdleSession ==
    [call |-> NoCall, pc |-> "idle", snapshot |-> EmptyDict, stamp |-> 0,
     outcome |-> Return(PyNone), after |-> EmptyDict, seq |-> 0, pending |-> {}]

\* No tool call and no sync request is under way, and no client has synced.
NoCallInFlight ==
    /\ session = [s \in Sessions |-> IdleSession]
    /\ sync_pc = "idle"
    /\ sync_stamp = 0
    /\ client_sync_time = PyNone
    /\ delivered = {}
    /\ unsynced = {}

\* The MCP tool machine before any tool was called, on an empty table.
NoToolCalled ==
    /\ workout_plans = EmptyDict
    /\ now = 0
    /\ call = NoCall
    /\ response = Return(PyNone)
    /\ before = EmptyDict
    /\ workout_logs = EmptyDict
    /\ NoRequestMade
    /\ NoCallInFlight

----------------------------------------------------------------------------
(* Specification of one call of _transform_block_to_exercises *)

InitBlock ==
    /\ pc = "input"
    /\ block \in Blocks
    /\ block_index \in BlockIndexes
    /\ result = Pending
    /\ plan_data = PyNone
    /\ plan = Pending
    /\ script_plan = Pending
    /\ NoToolCalled

CallTransformBlock ==
    /\ pc = "input"
    /\ result' = _transform_block_to_exercises(block, block_index)
    /\ pc' = "done"
    /\ UNCHANGED <<block, block_index, plan_data, plan, script_plan>>
    /\ UNCHANGED <<storeVars, syncVars, raceVars>>

NextBlock == CallTransformBlock

SpecBlock == InitBlock /\ [][NextBlock]_vars

----------------------------------------------------------------------------
(* Specification of one call of _transform_block_plan *)

MaxBlocks == 2

B_a == <<"a">>
B_a_1 == <<"a", "_", "1">>
B_warmup_0 == <<"w", "a", "r", "m", "u", "p", "_", "0">>
N_CatCow == <<"C", "a", "t", "-", "C", "o", "w">>
N_Squat == <<"S", "q", "u", "a", "t">>
M_Lower == <<"L", "o", "w", "e", "r">>
M_Gym == <<"G", "y", "m">>
M_Build == <<"B", "u", "i", "l", "d">>

SubCatCow == Sub(PyStr(N_CatCow), Absent, PyInt(10), Absent, Absent, Absent, Absent)
SubSquat == Sub(PyStr(N_Squat), PyInt(3), PyInt(5), Absent, Absent, Absent, Absent)
SubRow == Sub(PyStr(N_Row), Absent, PyStr(R_8leg), Absent, PyStr(L_Heavy), Absent, Absent)

\* Number of sub-exercises of the longest block: their numbers reach two digits.
LongBlock == 11

\* A block with sub-exercises and nothing else but its type.
ExerciseBlock(block_type, subs) ==
    Blk(block_type, PyStr(Title_T), PyStr(G_Rest), Absent, Absent, PyList(subs), Absent)
----------------------------------------------------------------------------
(* bin/ingest_plans.py: the transformation of the command-line ingest script *)

\* ex_type of the script: every block with exercises is transformed item by
\* item, a warmup block into checklist exercises.
ScriptExerciseType(block_type) ==
    IF block_type = PyStr(S_warmup) THEN PyStr(S_checklist)
    ELSE IF block_type \in {PyStr(S_circuit), PyStr(S_power)} THEN PyStr(S_circuit)
    ELSE PyStr(S_strength)

\* One iteration of the script's loop over block["exercises"].
ScriptItemExercise(blk, index, i, ex) ==
    IF ex.t # "map" THEN Raise("AttributeError")
    ELSE LET block_type == Get(blk, "block_type", PyStr(<<>>))
             rest_guidance == Get(blk, "rest_guidance", PyStr(<<>>))
             parts == GuidanceParts(block_type, rest_guidance, ex.m)
             note == Join(<<".", " ">>, parts)
             fields == [id |-> PyStr(ExerciseId(block_type, index, i)),
                        name |-> Get(ex.m, "name", PyStr(S_Unknown)),
                        type |-> ScriptExerciseType(block_type),
                        target_sets |-> TargetSets(ex.m),
                        target_reps |-> TargetReps(ex.m),
                        guidance_note |-> IF Len(parts) > 0 /\ note.ok
                                          THEN PyStr(note.val) ELSE Absent]
         IN IF Len(parts) > 0 /\ ~note.ok THEN note
            ELSE Return(MkDict(ItemKeys, fields))

\* The script's branch for a block with exercises, warmup or not.
ScriptItemExercises(blk, index) ==
    LET subs == Iterate(blk["exercises"])
    IN IF ~subs.ok THEN subs
       ELSE Collect([k \in 1..Len(subs.val) |->
                        ScriptItemExercise(blk, index, k - 1, subs.val[k])])

\* transform_block_to_exercises(block, block_index) of the script
transform_block_to_exercises(b, index) ==
    IF b.t # "map" THEN Raise("AttributeError")
    ELSE IF "exercises" \in DOMAIN b.m THEN ScriptItemExercises(b.m, index)
    ELSE IF "instructions" \in DOMAIN b.m THEN InstructionExercises(b.m, index)
    ELSE Return(<<>>)

\* transform_plan(plan_data) of the script: the plan dict without `blocks`,
\* or the exception raised.
transform_plan(data) ==
    LET blocks == Iterate(Get(data, "blocks", PyList(<<>>)))
        per_block == IF blocks.ok
                     THEN Collect([k \in 1..Len(blocks.val) |->
                              transform_block_to_exercises(blocks.val[k], k - 1)])
                     ELSE blocks
    IN IF ~per_block.ok THEN per_block
       ELSE Return(
           [day_name |-> Get(data, "theme", PyStr(S_Workout)),
            location |-> Get(data, "location", PyStr(S_Home)),
            phase |-> Get(data, "phase", PyStr(S_Foundation)),
            total_duration_min |-> Get(data, "total_duration_min", PyInt(DefaultTotalDuration)),
            exercises |-> Flatten(per_block.val)])


\* A block with instructions and nothing else but its type.
InstructionBlock(block_type, instructions) ==
    Blk(block_type, Absent, Absent, PyInt(15), Absent, Absent, PyList(instructions))

\* The blocks plans are built from.
PlanBlocks ==
    {ExerciseBlock(PyStr(S_warmup), <<SubCatCow>>),
     InstructionBlock(PyStr(S_warmup), <<PyStr(I_Easy)>>),
     Blk(PyStr(S_warmup), Absent, Absent, Absent, Absent, Absent, Absent),
     ExerciseBlock(PyStr(S_strength), <<SubSquat, SubRow>>),
     ExerciseBlock(PyStr(S_strength), <<SubRow>>),
     ExerciseBlock(PyStr(S_circuit), <<SubRow, SubRow>>),
     InstructionBlock(PyStr(B_cardio), <<PyStr(I_Easy), PyStr(I_goHARD)>>),
     ExerciseBlock(PyStr(B_a), [k \in 1..LongBlock |-> SubRow]),
     ExerciseBlock(PyStr(B_a_1), <<SubSquat>>),
     ExerciseBlock(PyStr(B_warmup_0), <<SubCatCow>>),
     ExerciseBlock(Absent, <<SubSquat>>),
     ExerciseBlock(PyStr(S_strength), <<>>),
     Blk(PyStr(S_strength), Absent, Absent, Absent, Absent, PyNone, Absent),
     PyNone}

PlanKeys == {"theme", "location", "phase", "total_duration_min", "blocks"}

\* A block-format plan dict; Absent leaves the key out.
PlanData(theme, location, phase, total_duration_min, blocks) ==
    MkDict(PlanKeys, [theme |-> theme, location |-> location, phase |-> phase,
                      total_duration_min |-> total_duration_min, blocks |-> blocks])

PlanInputs ==
    {PlanData(th, lo, ph, td, bl) :
        th \in {Absent, PyStr(<<>>), PyStr(M_Lower)}, lo \in {Absent, PyStr(M_Gym)},
        ph \in {Absent, PyStr(M_Build)}, td \in {Absent, PyInt(45)},
        bl \in {PyList(l) : l \in SeqsUpTo(PlanBlocks, MaxBlocks)} \cup {Absent, PyNone}}

InitPlan ==
    /\ pc = "input"
    /\ plan_data \in PlanInputs
    /\ plan = Pending
    /\ script_plan = Pending
    /\ block = PyNone
    /\ block_index = 0
    /\ result = Pending
    /\ NoToolCalled

CallTransformPlan ==
    /\ pc = "input"
    /\ plan' = _transform_block_plan(plan_data)
    /\ pc' = "done"
    /\ UNCHANGED <<plan_data, block, block_index, result, script_plan>>
    /\ UNCHANGED <<storeVars, syncVars, raceVars>>

NextPlan == CallTransformPlan

SpecPlan == InitPlan /\ [][NextPlan]_vars

----------------------------------------------------------------------------
(* Specification of the tool's and the script's transformation of one plan *)

\* transform_plan of the script called with the plan the tool transformed
CallScriptTransformPlan ==
    /\ pc = "done"
    /\ script_plan' = transform_plan(plan_data)
    /\ pc' = "both"
    /\ UNCHANGED <<plan_data, plan, block, block_index, result>>
    /\ UNCHANGED <<storeVars, syncVars, raceVars>>

NextScript ==
    \/ CallTransformPlan
    \/ CallScriptTransformPlan

SpecScript == InitPlan /\ [][NextScript]_vars

----------------------------------------------------------------------------
(* Dates: the text order of the table and datetime.strptime(date, "%Y-%m-%d") *)

\* Code points of the characters of the date and time strings.
CodePoint ==
    [c \in {" ", "-", ".", "/", "0", "1", "2", "3", "4", "5", "6", "7", "8", "9",
            ":", "T", "Z"} |->
        CASE c = " " -> 32 [] c = "-" -> 45 [] c = "." -> 46 [] c = "/" -> 47
          [] c = ":" -> 58 [] c = "T" -> 84 [] c = "Z" -> 90
          [] c = "0" -> 48 [] c = "1" -> 49 [] c = "2" -> 50 [] c = "3" -> 51
          [] c = "4" -> 52 [] c = "5" -> 53 [] c = "6" -> 54 [] c = "7" -> 55
          [] c = "8" -> 56 [] c = "9" -> 57]

\* a < b of two strs, as Python's sorted and SQLite's text comparison order them
StrLess(a, b) ==
    \E i \in 1..(Len(a) + 1) :
        /\ i <= Len(b)
        /\ \A j \in 1..(i - 1) : a[j] = b[j]
        /\ i = Len(a) + 1 \/ CodePoint[a[i]] < CodePoint[b[i]]

StrLessEq(a, b) == a = b \/ StrLess(a, b)

IsDigits(s) == \A i \in 1..Len(s) : s[i] \in {Digit[k] : k \in 1..10}

RECURSIVE StrToNat(_)
\* int(s) of a str of digits
StrToNat(s) ==
    IF Len(s) = 0 THEN 0
    ELSE 10 * StrToNat(SubSeq(s, 1, Len(s) - 1)) + (CodePoint[s[Len(s)]] - 48)

\* The strs the directive %m matches: 1[0-2] | 0[1-9] | [1-9]
IsMonthText(s) ==
    /\ Len(s) \in {1, 2}
    /\ IsDigits(s)
    /\ StrToNat(s) \in 1..12

\* The strs the directive %d matches: 3[01] | [12]\d | 0[1-9] | [1-9] | " "[1-9]
IsDayText(s) ==
    \/ Len(s) \in {1, 2} /\ IsDigits(s) /\ StrToNat(s) \in 1..31
    \/ Len(s) = 2 /\ s[1] = " " /\ IsDigits(<<s[2]>>) /\ s[2] # "0"

IsLeapYear(y) == (y % 4 = 0 /\ y % 100 # 0) \/ y % 400 = 0

DaysInMonth(y, m) ==
    IF m = 2 THEN (IF IsLeapYear(y) THEN 29 ELSE 28)
    ELSE IF m \in {4, 6, 9, 11} THEN 30 ELSE 31

\* datetime.strptime(s, "%Y-%m-%d"): the <<year, month, day>> parsed, or
\* ValueError.  Four year digits, then a month and a day of one or two digits.
strptime(s) ==
    LET dash == IF Len(s) >= 7 /\ s[7] = "-" THEN 7 ELSE 8
        y == SubSeq(s, 1, 4)
        m == SubSeq(s, 6, dash - 1)
        d == SubSeq(s, dash + 1, Len(s))
        day == IF d[1] = " " THEN StrToNat(<<d[2]>>) ELSE StrToNat(d)
    IN IF /\ Len(s) >= 8
          /\ IsDigits(y) /\ s[5] = "-"
          /\ s[dash] = "-"
          /\ IsMonthText(m)
          /\ IsDayText(d)
          /\ StrToNat(y) >= 1
          /\ day <= DaysInMonth(StrToNat(y), StrToNat(m))
       THEN Return(<<StrToNat(y), StrToNat(m), day>>)
       ELSE Raise("ValueError")

----------------------------------------------------------------------------
(* The stored form of a plan: json.dumps and json.loads *)

\* JSON text is modelled by its syntax tree: a number is its decimal digits, a
\* string its characters, null, an array and an object their members.
RECURSIVE json_dumps(_)
json_dumps(x) ==
    CASE x.t = "none" -> PyVal("null", 0, <<>>, <<>>, EmptyDict)
      [] x.t = "bool" -> PyVal("true", 0, <<>>, <<>>, EmptyDict)
      [] x.t = "int" -> PyVal("number", 0, IntToStr(x.i), <<>>, EmptyDict)
      [] x.t = "str" -> PyVal("string", 0, x.s, <<>>, EmptyDict)
      [] x.t = "list" ->
             PyVal("array", 0, <<>>, [i \in 1..Len(x.l) |-> json_dumps(x.l[i])], EmptyDict)
      [] x.t = "map" ->
             PyVal("object", 0, <<>>, <<>>, [k \in DOMAIN x.m |-> json_dumps(x.m[k])])

\* int(digits) of a JSON number
StrToInt(s) == IF s[1] = "-" THEN 0 - StrToNat(Tail(s)) ELSE StrToNat(s)

RECURSIVE json_loads(_)
json_loads(j) ==
    CASE j.t = "null" -> PyNone
      [] j.t = "true" -> PyTrue
      [] j.t = "number" -> PyInt(StrToInt(j.s))
      [] j.t = "string" -> PyStr(j.s)
      [] j.t = "array" -> PyList([i \in 1..Len(j.l) |-> json_loads(j.l[i])])
      [] j.t = "object" -> PyDict([k \in DOMAIN j.m |-> json_loads(j.m[k])])

----------------------------------------------------------------------------
(* Table workout_plans: date TEXT PRIMARY KEY, plan_json, last_modified,    *)
(* last_modified_by                                                         *)

\* The instant of clock reading t: t + 2 quarters of a second after 10:00:00
\* UTC on 2 February 2026, as second and microsecond of the minute.  Reading 2
\* falls on a full second.
ClockSecond(t) == (t + 2) \div 4
ClockMicrosecond(t) == ((t + 2) % 4) * 250000

\* The decimal digits of n, filled with zeros on the left to the width.
ZeroPadded(n, width) ==
    [i \in 1..(width - Len(NatToStr(n))) |-> "0"] \o NatToStr(n)

T_Minute == <<"2", "0", "2", "6", "-", "0", "2", "-", "0", "2", "T", "1", "0", ":", "0", "0", ":">>

\* datetime.isoformat() without the offset: the fraction is written only when
\* the microsecond is not 0.
isoformat(t) ==
    T_Minute \o ZeroPadded(ClockSecond(t), 2)
             \o (IF ClockMicrosecond(t) = 0 THEN <<>>
                 ELSE <<".">> \o ZeroPadded(ClockMicrosecond(t), 6))

\* get_utc_now() at clock reading t
get_utc_now(t) == isoformat(t) \o <<"Z">>

\* date.isoformat() of <<year, month, day>>
DateText(ymd) ==
    ZeroPadded(ymd[1], 4) \o <<"-">> \o ZeroPadded(ymd[2], 2) \o <<"-">> \o ZeroPadded(ymd[3], 2)

\* The day before and the day after <<year, month, day>>; Minus and Plus step
\* over whole months with them.
PrevDay(ymd) ==
    IF ymd[3] > 1 THEN <<ymd[1], ymd[2], ymd[3] - 1>>
    ELSE IF ymd[2] > 1 THEN <<ymd[1], ymd[2] - 1, DaysInMonth(ymd[1], ymd[2] - 1)>>
    ELSE <<ymd[1] - 1, 12, 31>>

NextDay(ymd) ==
    IF ymd[3] < DaysInMonth(ymd[1], ymd[2]) THEN <<ymd[1], ymd[2], ymd[3] + 1>>
    ELSE IF ymd[2] < 12 THEN <<ymd[1], ymd[2] + 1, 1>>
    ELSE <<ymd[1] + 1, 1, 1>>

RECURSIVE Minus(_, _)
\* day - timedelta(days=n), n >= 0
Minus(ymd, n) ==
    IF n < ymd[3] THEN <<ymd[1], ymd[2], ymd[3] - n>>
    ELSE LET last == PrevDay(<<ymd[1], ymd[2], 1>>)
         IN Minus(<<last[1], last[2], last[3]>>, n - ymd[3])

RECURSIVE Plus(_, _)
\* day + timedelta(days=n), n >= 0
Plus(ymd, n) ==
    IF ymd[3] + n <= DaysInMonth(ymd[1], ymd[2]) THEN <<ymd[1], ymd[2], ymd[3] + n>>
    ELSE LET first == NextDay(<<ymd[1], ymd[2], DaysInMonth(ymd[1], ymd[2])>>)
         IN Plus(<<first[1], first[2], first[3]>>,
                 n - (DaysInMonth(ymd[1], ymd[2]) - ymd[3] + 1))

\* date.today() at clock reading t: the day of the clock's instant.
today(t) == strptime(SubSeq(isoformat(t), 1, 10)).val

\* The row the tools write for a plan at time t.
Row(p, t) ==
    [plan_json |-> json_dumps(p), last_modified |-> get_utc_now(t), last_modified_by |-> "mcp"]

\* INSERT OR REPLACE INTO workout_plans ... VALUES (date, ...)
InsertOrReplace(rows, date, row) ==
    [d \in DOMAIN rows \cup {date} |-> IF d = date THEN row ELSE rows[d]]

\* UPDATE workout_plans SET ... WHERE date = ?
Update(rows, date, row) ==
    [d \in DOMAIN rows |-> IF d = date THEN row ELSE rows[d]]

\* DELETE FROM workout_plans WHERE date = ?
Delete(rows, date) == [d \in DOMAIN rows \ {date} |-> rows[d]]

\* The dates of S in ascending text order (ORDER BY date, and sorted(...)).
SortedDates(S) ==
    CHOOSE q \in [1..Cardinality(S) -> S] :
        \A i, j \in 1..Cardinality(S) : i < j => StrLess(q[i], q[j])

\* SELECT ... WHERE date >= ? AND date <= ? ORDER BY date
SelectRange(rows, start_date, end_date) ==
    SortedDates({d \in DOMAIN rows : StrLessEq(start_date, d) /\ StrLessEq(d, end_date)})

\* What a tool returns or raises, with the table and the clock it leaves.
Outcome(resp, rows, clock) == [response |-> resp, rows |-> rows, clock |-> clock]

\* A tool's result dict.  The `message` text, the `error` text of an ingest
\* failure and the key order of `updated_fields` are left out.
Success(fields) == Return(PyDict(fields @@ [success |-> PyTrue]))

----------------------------------------------------------------------------
(* Validation of exercises: set_workout_plan and add_exercise *)

S_weighted_time == <<"w", "e", "i", "g", "h", "t", "e", "d", "_", "t", "i", "m", "e">>

\* valid_types
ValidTypes ==
    {PyStr(S_strength), PyStr(S_duration), PyStr(S_checklist), PyStr(S_weighted_time),
     PyStr(S_interval), PyStr(S_circuit)}

\* The text of the keys the validation looks for.
KeyText == [id |-> <<"i", "d">>, name |-> <<"n", "a", "m", "e">>, type |-> <<"t", "y", "p", "e">>]

\* `key in x`: a key of a dict, a substring of a str, an element of a list;
\* TypeError for None and int.
In(key, x) ==
    CASE x.t = "map" -> Return(key \in DOMAIN x.m)
      [] x.t = "str" -> Return(Contains(x.s, KeyText[key]))
      [] x.t = "list" -> Return(\E i \in 1..Len(x.l) : x.l[i] = PyStr(KeyText[key]))
      [] x.t \in {"none", "int"} -> Raise("TypeError")

\* The checks of one exercise: id, name and type present, type in valid_types.
\* Return(TRUE), or the exception of the first check that fails.
ValidateExercise(exercise) ==
    LET Missing(key) == ~In(key, exercise).ok \/ ~In(key, exercise).val
        first == CHOOSE key \in {"id", "name", "type"} :
                     /\ Missing(key)
                     /\ key = "name" => ~Missing("id")
                     /\ key = "type" => ~Missing("id") /\ ~Missing("name")
    IN IF \E key \in {"id", "name", "type"} : Missing(key)
       THEN (IF In(first, exercise).ok THEN Raise("ValueError") ELSE Raise("TypeError"))
       ELSE IF exercise.t # "map" THEN Raise("TypeError")
       ELSE IF exercise.m["type"] \notin ValidTypes THEN Raise("ValueError")
       ELSE Return(TRUE)


----------------------------------------------------------------------------
(* The MCP tools.  Each is the whole handler: what it returns or raises and *)
(* the table and clock it leaves.  rows is the table, t the clock.          *)

\* plan.get("exercises", []) of a stored plan: the list of its exercise dicts.
ExercisesOf(p) == Get(p.m, "exercises", PyList(<<>>)).l

\* ex.get("id")
IdOf(ex) == Get(ex.m, "id", PyNone)

\* The plan with its `exercises` set to the list exs.
WithExercises(p, exs) ==
    PyDict([k \in DOMAIN p.m \cup {"exercises"} |->
               IF k = "exercises" THEN PyList(exs) ELSE p.m[k]])

\* dict.update: the entries of updates, and those of d under the other keys
DictUpdate(d, updates) ==
    PyDict([k \in DOMAIN d.m \cup DOMAIN updates.m |->
               IF k \in DOMAIN updates.m THEN updates.m[k] ELSE d.m[k]])

\* The plan the row of `date` holds.
StoredPlan(rows, date) == json_loads(rows[date].plan_json)

\* get_workout_plan(start_date, end_date)
get_workout_plan(rows, t, start_date, end_date) ==
    LET dates == SelectRange(rows, start_date, end_date)
    IN Outcome(Return(PyList([i \in 1..Len(dates) |->
                   PyDict([date |-> PyStr(dates[i]),
                           last_modified |-> PyStr(rows[dates[i]].last_modified),
                           plan |-> StoredPlan(rows, dates[i])])])),
               rows, t)

\* A reading of the logs that marks each log with the time of its row.
get_workout_logs_Stamped(rows, logs, t, start_date, end_date) ==
    LET dates == SelectRange(logs, start_date, end_date)
    IN Outcome(Return(PyList([i \in 1..Len(dates) |->
                   PyDict([date |-> PyStr(dates[i]),
                           last_modified |-> PyStr(logs[dates[i]].last_modified),
                           log |-> DictUpdate(json_loads(logs[dates[i]].log_json),
                                              PyDict([_lastModified |->
                                                  PyStr(logs[dates[i]].last_modified)]))])])),
               rows, t)

\* get_workout_logs(start_date, end_date)
get_workout_logs(rows, logs, t, start_date, end_date) ==
    LET dates == SelectRange(logs, start_date, end_date)
    IN Outcome(Return(PyList([i \in 1..Len(dates) |->
                   PyDict([date |-> PyStr(dates[i]),
                           last_modified |-> PyStr(logs[dates[i]].last_modified),
                           log |-> json_loads(logs[dates[i]].log_json)])])),
               rows, t)

\* The longest period get_workout_summary accepts.
MaxSummaryDays == 365

\* The number of recent plans get_workout_summary looks at (LIMIT 7).
RecentPlans == 7

\* get_workout_summary(days), for days >= 0.  The completion rate and the
\* exercise type counts of the result are left out.
get_workout_summary(rows, logs, t, days) ==
    IF days > MaxSummaryDays THEN Outcome(Raise("ValueError"), rows, t)
    ELSE LET start_date == DateText(Minus(today(t), days))
             end_date == DateText(today(t))
             planned == SelectRange(rows, start_date, end_date)
             completed == SelectRange(logs, start_date, end_date)
             recent == [i \in 1..(IF Len(planned) < RecentPlans THEN Len(planned)
                                   ELSE RecentPlans) |->
                           PyStr(planned[Len(planned) + 1 - i])]
         IN Outcome(Return(PyDict([analysis_period_days |-> PyInt(days),
                                   planned_workouts |-> PyInt(Len(planned)),
                                   completed_workouts |-> PyInt(Len(completed)),
                                   recent_plan_dates |-> PyList(recent)])),
                    rows, t)

\* The weeks list_scheduled_dates looks ahead when no end date is given.
DefaultWeeks == 6

\* list_scheduled_dates(start_date, end_date); a date that is None or empty
\* is replaced by its default.
list_scheduled_dates(rows, t, start_date, end_date) ==
    LET from == IF Truthy(start_date) THEN start_date.s ELSE DateText(today(t))
        to == IF Truthy(end_date) THEN end_date.s
              ELSE DateText(Plus(today(t), 7 * DefaultWeeks))
        dates == SelectRange(rows, from, to)
    IN Outcome(Return(PyList([i \in 1..Len(dates) |-> PyStr(dates[i])])), rows, t)

\* The exception set_workout_plan raises before it writes, or "" for none.
SetPlanError(date, p) ==
    IF ~strptime(date).ok THEN "ValueError"
    ELSE IF p.t # "map" THEN "ValueError"
    ELSE IF "day_name" \notin DOMAIN p.m \/ "exercises" \notin DOMAIN p.m THEN "ValueError"
    ELSE IF p.m["exercises"].t # "list" THEN "ValueError"
    ELSE LET checks == Collect([i \in 1..Len(p.m["exercises"].l) |->
                                   ValidateExercise(p.m["exercises"].l[i])])
         IN IF checks.ok THEN "" ELSE checks.exc

\* set_workout_plan(date, plan)
set_workout_plan(rows, t, date, p) ==
    IF SetPlanError(date, p) # "" THEN Outcome(Raise(SetPlanError(date, p)), rows, t)
    ELSE Outcome(Success([date |-> PyStr(date), last_modified |-> PyStr(get_utc_now(t)), plan |-> p]),
                 InsertOrReplace(rows, date, Row(p, t)), t + 1)

\* Python's list.insert(position, x): a negative position counts from the
\* end, and a position outside the list is clamped to its ends.
ListInsert(l, position, x) ==
    LET n == Len(l)
        from_end == IF position < 0 THEN position + n ELSE position
        at == IF from_end < 0 THEN 0 ELSE IF from_end > n THEN n ELSE from_end
    IN SubSeq(l, 1, at) \o <<x>> \o SubSeq(l, at + 1, n)

\* An insert that appends whatever the position.
AddAt_AlwaysLast(l, position, x) == Append(l, x)

\* exercises.append(exercise) for position None, else exercises.insert(...)
AddAt(l, position, x) ==
    IF position.t = "none" THEN Append(l, x) ELSE ListInsert(l, position.i, x)

\* add_exercise(date, exercise, position)
add_exercise(rows, t, date, exercise, position) ==
    IF ~ValidateExercise(exercise).ok
    THEN Outcome(Raise(ValidateExercise(exercise).exc), rows, t)
    ELSE IF date \notin DOMAIN rows THEN Outcome(Raise("ValueError"), rows, t)
    ELSE LET p == StoredPlan(rows, date)
             existing_ids == {IdOf(ExercisesOf(p)[i]) : i \in 1..Len(ExercisesOf(p))}
             exercises == AddAt(ExercisesOf(p), position, exercise)
         IN IF exercise.m["id"] \in existing_ids THEN Outcome(Raise("ValueError"), rows, t)
            ELSE Outcome(Success([date |-> PyStr(date), added_exercise |-> exercise,
                                  total_exercises |-> PyInt(Len(exercises))]),
                         Update(rows, date, Row(WithExercises(p, exercises), t)), t + 1)

\* The position of the first exercise of the list with this id, or 0.
FirstWithId(exs, exercise_id) ==
    IF \E i \in 1..Len(exs) : IdOf(exs[i]) = PyStr(exercise_id)
    THEN CHOOSE i \in 1..Len(exs) :
             /\ IdOf(exs[i]) = PyStr(exercise_id)
             /\ \A j \in 1..(i - 1) : IdOf(exs[j]) # PyStr(exercise_id)
    ELSE 0

\* An update that replaces the exercise by the updates.
Updated_Replaced(exercise, updates) == updates

\* exercise.update(updates)
Updated(exercise, updates) == DictUpdate(exercise, updates)

\* update_exercise(date, exercise_id, updates)
update_exercise(rows, t, date, exercise_id, updates) ==
    IF date \notin DOMAIN rows THEN Outcome(Raise("ValueError"), rows, t)
    ELSE LET p == StoredPlan(rows, date)
             exs == ExercisesOf(p)
             found == FirstWithId(exs, exercise_id)
             exercises == [i \in 1..Len(exs) |->
                              IF i = found THEN Updated(exs[i], updates) ELSE exs[i]]
             \* the loop mutates the list of the loaded plan in place; a plan
             \* without `exercises` has nothing to find
             saved == WithExercises(p, exercises)
         IN IF found = 0 THEN Outcome(Raise("ValueError"), rows, t)
            ELSE Outcome(Success([date |-> PyStr(date), exercise_id |-> PyStr(exercise_id),
                                  updated_exercise |-> exercises[found]]),
                         Update(rows, date, Row(saved, t)), t + 1)

RECURSIVE Without(_, _)
\* [ex for ex in exercises if ex.get("id") != exercise_id]
Without(exs, exercise_id) ==
    IF Len(exs) = 0 THEN <<>>
    ELSE IF IdOf(exs[1]) = PyStr(exercise_id) THEN Without(Tail(exs), exercise_id)
    ELSE <<exs[1]>> \o Without(Tail(exs), exercise_id)

\* remove_exercise(date, exercise_id)
remove_exercise(rows, t, date, exercise_id) ==
    IF date \notin DOMAIN rows THEN Outcome(Raise("ValueError"), rows, t)
    ELSE LET p == StoredPlan(rows, date)
             exercises == Without(ExercisesOf(p), exercise_id)
         IN IF Len(exercises) = Len(ExercisesOf(p)) THEN Outcome(Raise("ValueError"), rows, t)
            ELSE Outcome(Success([date |-> PyStr(date),
                                  removed_exercise_id |-> PyStr(exercise_id),
                                  remaining_exercises |-> PyInt(Len(exercises))]),
                         Update(rows, date, Row(WithExercises(p, exercises), t)), t + 1)

\* delete_workout_plan(date)
delete_workout_plan(rows, t, date) ==
    IF ~strptime(date).ok \/ date \notin DOMAIN rows THEN Outcome(Raise("ValueError"), rows, t)
    ELSE Outcome(Success([date |-> PyStr(date)]), Delete(rows, date), t)

\* allowed_fields
AllowedFields == {"day_name", "location", "phase", "total_duration_min"}

\* A metadata update that checks no field name.
InvalidFields_None(updates) == {}

\* set(updates.keys()) - allowed_fields
InvalidFields(updates) == DOMAIN updates.m \ AllowedFields

\* update_plan_metadata(date, updates)
update_plan_metadata(rows, t, date, updates) ==
    IF InvalidFields(updates) # {} THEN Outcome(Raise("ValueError"), rows, t)
    ELSE IF date \notin DOMAIN rows THEN Outcome(Raise("ValueError"), rows, t)
    ELSE LET p == DictUpdate(StoredPlan(rows, date), updates)
         IN Outcome(Success([date |-> PyStr(date),
                             plan_metadata |->
                                 PyDict([day_name |-> Get(p.m, "day_name", PyNone),
                                         location |-> Get(p.m, "location", PyNone),
                                         phase |-> Get(p.m, "phase", PyNone),
                                         total_duration_min |->
                                             Get(p.m, "total_duration_min", PyNone),
                                         exercise_count |-> PyInt(Len(ExercisesOf(p)))])]),
                    Update(rows, date, Row(p, t)), t + 1)

\* The plan dict _transform_block_plan returned, as a Python value.
AsPyPlan(r) ==
    LET Exercises(exs) == PyList([j \in 1..Len(exs) |-> PyDict(exs[j])])
        Block(b) == PyDict([f \in DOMAIN b |->
                               IF f = "exercises" THEN Exercises(b[f]) ELSE b[f]])
    IN PyDict([k \in DOMAIN r |->
                  CASE k = "blocks" -> PyList([i \in 1..Len(r[k]) |-> Block(r[k][i])])
                    [] k = "exercises" -> Exercises(r[k])
                    [] OTHER -> r[k]])

\* One iteration of ingest_training_program: the plan it saves for the date,
\* or the exception that puts the date in `failed`.
IngestOne(date, data, transform_blocks) ==
    LET transformed == _transform_block_plan(data.m)
        transforms == transform_blocks /\ "blocks" \in DOMAIN data.m
        p == IF transforms THEN AsPyPlan(transformed.val) ELSE data
        named == IF "day_name" \in DOMAIN p.m THEN p
                 ELSE DictUpdate(p, PyDict([day_name |-> Get(data.m, "theme", PyStr(S_Workout))]))
    IN IF ~strptime(date).ok THEN Raise("ValueError")
       ELSE IF transforms /\ ~transformed.ok THEN Raise(transformed.exc)
       ELSE IF "exercises" \notin DOMAIN named.m \/ ~Truthy(named.m["exercises"])
       THEN Raise("ValueError")
       ELSE Return(named)

RECURSIVE IngestFrom_StopAtFailure(_, _, _, _, _, _, _)
\* A loop that gives up at the first date that fails: the dates after it are
\* reported as failed too.
IngestFrom_StopAtFailure(dates, plans, transform_blocks, rows, t, success, failed) ==
    IF Len(dates) = 0
    THEN Outcome(Return(PyDict([success_count |-> PyInt(Len(success)),
                                failed_count |-> PyInt(Len(failed)),
                                success_dates |-> PyList(success),
                                failed |-> PyList(failed)])),
                 rows, t)
    ELSE LET date == dates[1]
             one == IngestOne(date, plans[date], transform_blocks)
         IN IF one.ok /\ Len(failed) = 0
            THEN IngestFrom_StopAtFailure(Tail(dates), plans, transform_blocks,
                                          InsertOrReplace(rows, date, Row(one.val, t)), t + 1,
                                          Append(success, PyStr(date)), failed)
            ELSE IngestFrom_StopAtFailure(Tail(dates), plans, transform_blocks, rows, t,
                                          success, Append(failed, PyDict([date |-> PyStr(date)])))

RECURSIVE IngestFrom(_, _, _, _, _, _, _)
\* The loop of ingest_training_program over the dates still to handle.
IngestFrom(dates, plans, transform_blocks, rows, t, success, failed) ==
    IF Len(dates) = 0
    THEN Outcome(Return(PyDict([success_count |-> PyInt(Len(success)),
                                failed_count |-> PyInt(Len(failed)),
                                success_dates |-> PyList(success),
                                failed |-> PyList(failed)])),
                 rows, t)
    ELSE LET date == dates[1]
             one == IngestOne(date, plans[date], transform_blocks)
         IN IF one.ok
            THEN IngestFrom(Tail(dates), plans, transform_blocks,
                            InsertOrReplace(rows, date, Row(one.val, t)), t + 1,
                            Append(success, PyStr(date)), failed)
            ELSE IngestFrom(Tail(dates), plans, transform_blocks, rows, t,
                            success, Append(failed, PyDict([date |-> PyStr(date)])))

\* ingest_training_program(plans, transform_blocks); plans maps dates to plan
\* dicts, handled in ascending order of the date text.
ingest_training_program(rows, t, plans, transform_blocks) ==
    IngestFrom(SortedDates(DOMAIN plans), plans, transform_blocks, rows, t, <<>>, <<>>)

----------------------------------------------------------------------------
(* Specification of the MCP tools called one after another on one table *)

\* Calls are made while the clock is below this bound.
MaxTime == 3

D_0202 == <<"2", "0", "2", "6", "-", "0", "2", "-", "0", "2">>
D_0210 == <<"2", "0", "2", "6", "-", "0", "2", "-", "1", "0">>
D_23 == <<"2", "0", "2", "6", "-", "2", "-", "3">>
D_0230 == <<"2", "0", "2", "6", "-", "0", "2", "-", "3", "0">>
D_slash == <<"0", "2", "/", "0", "2", "/", "2", "0", "2", "6">>
D_0201 == <<"2", "0", "2", "6", "-", "0", "2", "-", "0", "1">>
D_0205 == <<"2", "0", "2", "6", "-", "0", "2", "-", "0", "5">>
D_0228 == <<"2", "0", "2", "6", "-", "0", "2", "-", "2", "8">>
D_1231 == <<"2", "0", "2", "6", "-", "1", "2", "-", "3", "1">>

\* Dates strptime takes: two zero-padded ones and one that is not padded.
PlanDates == {D_0202, D_0210, D_23}

\* Dates strptime refuses: no such day, and another format.
BadDates == {D_0230, D_slash}

\* The dates the partial-update tools are called with.
EditDates == {D_0202, D_0210}

ExerciseKeys == {"id", "name", "type", "target_sets"}

\* An exercise dict; Absent leaves the key out.
Ex(id, name, type, target_sets) ==
    PyDict(MkDict(ExerciseKeys,
                  [id |-> id, name |-> name, type |-> type, target_sets |-> target_sets]))

I_a == PyStr(<<"a">>)
I_b == PyStr(<<"b">>)
I_c == PyStr(<<"c">>)
S_bogus == <<"b", "o", "g", "u", "s">>

ExA == Ex(I_a, PyStr(N_Squat), PyStr(S_strength), PyInt(3))
ExB == Ex(I_b, PyStr(N_KB), PyStr(S_duration), Absent)
ExA2 == Ex(I_a, PyStr(N_Row), PyStr(S_strength), Absent)
ExC == Ex(I_c, PyStr(N_WallSit), PyStr(S_duration), Absent)
ExNoId == Ex(Absent, PyStr(N_Row), PyStr(S_strength), Absent)
ExNoName == Ex(I_c, Absent, PyStr(S_strength), Absent)
ExNoType == Ex(I_c, PyStr(N_Row), Absent, Absent)
ExBadType == Ex(I_c, PyStr(N_Row), PyStr(S_bogus), Absent)

FlatKeys == {"day_name", "location", "theme", "exercises"}

\* A flat plan dict; Absent leaves the key out.
Flat(day_name, location, theme, exercises) ==
    PyDict(MkDict(FlatKeys, [day_name |-> day_name, location |-> location,
                             theme |-> theme, exercises |-> exercises]))

P_Lower == Flat(PyStr(M_Lower), PyStr(S_Home), Absent, PyList(<<ExA, ExB>>))
P_Upper == Flat(PyStr(M_Build), Absent, Absent, PyList(<<ExB>>))
P_Twice == Flat(PyStr(M_Gym), Absent, Absent, PyList(<<ExA, ExB, ExA2>>))
P_Rest == Flat(PyStr(S_Workout), Absent, Absent, PyList(<<>>))

\* Plans set_workout_plan accepts; P_Twice has two exercises with the id "a".
GoodPlans == {P_Lower, P_Upper, P_Twice, P_Rest}

\* Plans set_workout_plan refuses: not a dict, a required field missing,
\* exercises not a list, an exercise without id, name or type, with a type
\* outside valid_types, or that is not a dict.
BadPlans ==
    {PyNone, PyList(<<ExA>>),
     Flat(Absent, Absent, Absent, PyList(<<ExA>>)),
     Flat(PyStr(M_Lower), Absent, Absent, Absent),
     Flat(PyStr(M_Lower), Absent, Absent, PyStr(N_Row)),
     Flat(PyStr(M_Lower), Absent, Absent, PyList(<<ExA, ExNoId>>)),
     Flat(PyStr(M_Lower), Absent, Absent, PyList(<<ExNoName>>)),
     Flat(PyStr(M_Lower), Absent, Absent, PyList(<<ExNoType>>)),
     Flat(PyStr(M_Lower), Absent, Absent, PyList(<<ExA, ExBadType>>)),
     Flat(PyStr(M_Lower), Absent, Absent, PyList(<<PyNone>>)),
     Flat(PyStr(M_Lower), Absent, Absent, PyList(<<PyStr(N_Row)>>))}

\* The positions add_exercise is called with: None, inside the list, past its
\* end, and negative.
Positions == {PyNone, PyInt(0), PyInt(1), PyInt(5), PyInt(-1)}

\* The exercises add_exercise is called with.
NewExercises == {ExC, ExA2, ExNoId, ExNoName, ExNoType, ExBadType}

\* The ids update_exercise and remove_exercise are called with.
ExerciseIds == {<<"a">>, <<"b">>, <<"z">>}

U_Sets == PyDict([target_sets |-> PyInt(4), guidance_note |-> PyStr(L_Heavy)])
U_Type == PyDict([type |-> PyStr(S_bogus)])
U_Id == PyDict([id |-> I_b])

\* The updates update_exercise is called with.
ExerciseUpdates == {U_Sets, U_Type, U_Id, PyDict(EmptyDict)}

\* The updates update_plan_metadata is called with; the last names a field
\* that is not allowed.
MetadataUpdates ==
    {PyDict([day_name |-> PyStr(M_Gym)]),
     PyDict([phase |-> PyStr(M_Build), total_duration_min |-> PyInt(45)]),
     PyDict(EmptyDict),
     PyDict([day_name |-> PyStr(M_Gym), exercises |-> PyList(<<>>)])}

\* The ranges get_workout_plan is called with.
Ranges == {<<D_0201, D_0228>>, <<D_0205, D_0228>>, <<D_0201, D_1231>>}

\* A block-format plan of a warmup and a strength block.
BlockPlan ==
    PyDict(PlanData(PyStr(M_Lower), Absent, PyStr(M_Build), Absent,
                    PyList(<<ExerciseBlock(PyStr(S_warmup), <<SubCatCow>>),
                             ExerciseBlock(PyStr(S_strength), <<SubSquat, SubRow>>)>>)))

\* A block-format plan whose only block yields no exercise.
EmptyBlockPlan ==
    PyDict(PlanData(Absent, Absent, Absent, Absent,
                    PyList(<<Blk(PyStr(S_strength), Absent, Absent, Absent, Absent, Absent,
                                 Absent)>>)))

\* A flat plan without day_name whose exercises fail the checks of set_workout_plan.
LoosePlan == Flat(Absent, Absent, PyStr(M_Gym), PyList(<<ExNoId, ExBadType>>))

\* The programs ingest_training_program is called with.
Programs ==
    {<<(D_0202 :> BlockPlan) @@ (D_slash :> BlockPlan), TRUE>>,
     <<(D_0202 :> EmptyBlockPlan) @@ (D_0210 :> BlockPlan), TRUE>>,
     <<(D_0210 :> P_Upper) @@ (D_0202 :> P_Rest), FALSE>>,
     <<(D_0210 :> LoosePlan), FALSE>>,
     <<(D_0210 :> BlockPlan), FALSE>>}

\* A log the client uploaded: per exercise id its completion state.
A_Done == PyDict([a |-> PyDict([completed |-> PyTrue, sets |-> PyInt(3)]),
                  b |-> PyDict([completed |-> PyTrue])])
A_Partly == PyDict([b |-> PyDict([completed |-> PyTrue, note |-> PyStr(L_Heavy)])])

C_phone == <<"p", "h", "o", "n", "e">>

\* The time of an upload on the evening before the clock starts.
T_Evening ==
    <<"2", "0", "2", "6", "-", "0", "2", "-", "0", "1", "T", "1", "8", ":", "3", "0", ":",
      "0", "0", ".", "2", "5", "0", "0", "0", "0", "Z">>

\* The row of a log as an upload wrote it.
LogRow(log, time, client_id) ==
    [log_json |-> json_dumps(log), last_modified |-> time, last_modified_by |-> client_id]

\* The logs the table holds when the tools are called.
StoredLogs ==
    (D_0201 :> LogRow(A_Done, T_Evening, C_phone)) @@ (D_0210 :> LogRow(A_Partly, T_Evening, C_phone))

\* The periods get_workout_summary is called with.
SummaryDays == {1, 30, 400}

\* The ranges list_scheduled_dates is called with.
ScheduleRanges == {<<PyNone, PyNone>>, <<PyStr(D_0205), PyStr(<<>>)>>, <<PyStr(D_0201), PyStr(D_0228)>>}

Init ==
    /\ workout_plans = EmptyDict
    /\ workout_logs = StoredLogs
    /\ now = 0
    /\ call = NoCall
    /\ response = Return(PyNone)
    /\ before = EmptyDict
    /\ NoRequestMade
    /\ NoCallInFlight
    /\ pc = "idle"
    /\ block = PyNone
    /\ block_index = 0
    /\ result = Pending
    /\ plan_data = PyNone
    /\ plan = Pending
    /\ script_plan = Pending

\* One tool call c with the outcome out: the call starts at time `now` on the
\* table as it is; time passes before the next call.
Run(c, out) ==
    /\ call' = c
    /\ before' = workout_plans
    /\ response' = out.response
    /\ workout_plans' = out.rows
    /\ now' = IF out.clock > now THEN out.clock ELSE now + 1
    /\ request' = NoRequest
    /\ reply' = NoReply
    /\ logs_before' = workout_logs
    /\ clients_before' = clients
    /\ UNCHANGED <<workout_logs, clients, meta_sync, uploaded, registered, server_times>>
    /\ UNCHANGED transformVars
    /\ UNCHANGED raceVars

GetWorkoutLogs ==
    /\ now < MaxTime
    /\ \E r \in Ranges :
           Run([NoCall EXCEPT !.tool = "get_workout_logs", !.start_date = r[1],
                              !.end_date = r[2]],
               get_workout_logs(workout_plans, workout_logs, now, r[1], r[2]))

GetWorkoutSummary ==
    /\ now < MaxTime
    /\ \E days \in SummaryDays :
           Run([NoCall EXCEPT !.tool = "get_workout_summary", !.days = days],
               get_workout_summary(workout_plans, workout_logs, now, days))

ListScheduledDates ==
    /\ now < MaxTime
    /\ \E r \in ScheduleRanges :
           Run([NoCall EXCEPT !.tool = "list_scheduled_dates", !.arg = PyList(<<r[1], r[2]>>)],
               list_scheduled_dates(workout_plans, now, r[1], r[2]))

GetWorkoutPlan ==
    /\ now < MaxTime
    /\ \E r \in Ranges :
           Run([NoCall EXCEPT !.tool = "get_workout_plan", !.start_date = r[1],
                              !.end_date = r[2]],
               get_workout_plan(workout_plans, now, r[1], r[2]))

SetWorkoutPlan ==
    /\ now < MaxTime
    /\ \E a \in (PlanDates \X GoodPlans) \cup ({D_0202} \X BadPlans) \cup (BadDates \X {P_Lower}) :
           Run([NoCall EXCEPT !.tool = "set_workout_plan", !.date = a[1], !.arg = a[2]],
               set_workout_plan(workout_plans, now, a[1], a[2]))

IngestTrainingProgram ==
    /\ now < MaxTime
    /\ \E a \in Programs :
           Run([NoCall EXCEPT !.tool = "ingest_training_program", !.plans = a[1],
                              !.transform_blocks = a[2]],
               ingest_training_program(workout_plans, now, a[1], a[2]))

UpdateExercise ==
    /\ now < MaxTime
    /\ \E d \in EditDates, id \in ExerciseIds, u \in ExerciseUpdates :
           Run([NoCall EXCEPT !.tool = "update_exercise", !.date = d, !.exercise_id = id,
                              !.arg = u],
               update_exercise(workout_plans, now, d, id, u))

AddExercise ==
    /\ now < MaxTime
    /\ \E d \in EditDates, a \in ({ExC} \X Positions) \cup (NewExercises \X {PyNone}) :
           Run([NoCall EXCEPT !.tool = "add_exercise", !.date = d, !.arg = a[1],
                              !.position = a[2]],
               add_exercise(workout_plans, now, d, a[1], a[2]))

RemoveExercise ==
    /\ now < MaxTime
    /\ \E d \in EditDates, id \in ExerciseIds :
           Run([NoCall EXCEPT !.tool = "remove_exercise", !.date = d, !.exercise_id = id],
               remove_exercise(workout_plans, now, d, id))

DeleteWorkoutPlan ==
    /\ now < MaxTime
    /\ \E d \in EditDates \cup {D_slash} :
           Run([NoCall EXCEPT !.tool = "delete_workout_plan", !.date = d],
               delete_workout_plan(workout_plans, now, d))

UpdatePlanMetadata ==
    /\ now < MaxTime
    /\ \E d \in EditDates, u \in MetadataUpdates :
           Run([NoCall EXCEPT !.tool = "update_plan_metadata", !.date = d, !.arg = u],
               update_plan_metadata(workout_plans, now, d, u))

Next ==
    \/ GetWorkoutPlan
    \/ GetWorkoutLogs
    \/ SetWorkoutPlan
    \/ GetWorkoutSummary
    \/ ListScheduledDates
    \/ IngestTrainingProgram
    \/ UpdateExercise
    \/ AddExercise
    \/ RemoveExercise
    \/ DeleteWorkoutPlan
    \/ UpdatePlanMetadata

Spec == Init /\ [][Next]_vars

----------------------------------------------------------------------------
(* The HTTP sync server: src/server.py *)

S_ClientPrefix == <<"C", "l", "i", "e", "n", "t", "-">>

\* The characters of the id the default client name keeps: client_id[:8]
IdPrefixLength == 8

\* f"Client-{client_id[:8]}"
DefaultClientName(client_id) ==
    S_ClientPrefix \o SubSeq(client_id, 1, IF Len(client_id) < IdPrefixLength
                                         THEN Len(client_id) ELSE IdPrefixLength)

\* The row of a client.
ClientRow(name, time) == [name |-> name, last_seen_at |-> time]

\* A response of the server with status 200; the fields an endpoint does not
\* return stay empty.
Reply(fields) == [k \in DOMAIN NoReply |-> IF k \in DOMAIN fields THEN fields[k] ELSE NoReply[k]]
                     @@ [status |-> 200]

\* What a request leaves: the response and the tables.
Served(resp, new_clients, new_logs, new_meta) ==
    [reply |-> resp, clients |-> new_clients, logs |-> new_logs, meta_sync |-> new_meta]

\* POST /api/workout/register at clock reading t
register_client(cl, logs, meta, t, client_id, client_name) ==
    LET name == IF Truthy(client_name) THEN client_name.s ELSE DefaultClientName(client_id)
    IN Served(Reply([clientId |-> client_id]),
              InsertOrReplace(cl, client_id, ClientRow(name, get_utc_now(t))),
              logs, meta)

\* The days a sync without last_sync_time looks back for logs.
LogWindowDays == 30

\* The parsed JSON of a row with `_lastModified` set to the time of the row.
WithLastModified(parsed, time) == DictUpdate(parsed, PyDict([_lastModified |-> PyStr(time)]))

\* The dates of the rows GET /api/workout/sync returns from a table: those
\* whose last_modified text is greater than a last_sync_time that is given.
ChangedSince(rows, last_sync_time) ==
    {d \in DOMAIN rows : StrLess(last_sync_time, rows[d].last_modified)}

\* GET /api/workout/sync at clock reading t
workout_sync_get(plans, cl, logs, meta, t, client_id, last_sync_time) ==
    LET time == get_utc_now(t)
        seen == Update(cl, client_id,
                       ClientRow(IF client_id \in DOMAIN cl THEN cl[client_id].name ELSE <<>>,
                                 time))
        plan_dates == IF Truthy(last_sync_time) THEN ChangedSince(plans, last_sync_time.s)
                      ELSE DOMAIN plans
        thirty_days_ago == DateText(Minus(today(t), LogWindowDays))
        log_dates == IF Truthy(last_sync_time) THEN ChangedSince(logs, last_sync_time.s)
                     ELSE {d \in DOMAIN logs : StrLessEq(thirty_days_ago, d)}
    IN Served(Reply([plans |-> [d \in plan_dates |->
                                   WithLastModified(json_loads(plans[d].plan_json),
                                                    plans[d].last_modified)],
                     logs |-> [d \in log_dates |->
                                  WithLastModified(json_loads(logs[d].log_json),
                                                   logs[d].last_modified)],
                     serverTime |-> time]),
              seen, logs, meta)

\* A server that merges an uploaded log into the log it holds for the date.
workout_sync_post_Merging(cl, logs, meta, t, client_id, payload_logs) ==
    LET time == get_utc_now(t)
    IN Served(Reply([appliedLogs |-> DOMAIN payload_logs, serverTime |-> time]),
              InsertOrReplace(cl, client_id, ClientRow(DefaultClientName(client_id), time)),
              [d \in DOMAIN logs \cup DOMAIN payload_logs |->
                  IF d \in DOMAIN payload_logs
                  THEN LogRow(IF d \in DOMAIN logs
                              THEN DictUpdate(json_loads(logs[d].log_json), payload_logs[d])
                              ELSE payload_logs[d],
                              time, client_id)
                  ELSE logs[d]],
              [k \in DOMAIN meta \cup {"last_server_sync_time"} |->
                  IF k = "last_server_sync_time" THEN time ELSE meta[k]])

\* POST /api/workout/sync at clock reading t; payload_logs maps dates to logs
workout_sync_post(cl, logs, meta, t, client_id, payload_logs) ==
    LET time == get_utc_now(t)
    IN Served(Reply([appliedLogs |-> DOMAIN payload_logs, serverTime |-> time]),
              InsertOrReplace(cl, client_id, ClientRow(DefaultClientName(client_id), time)),
              [d \in DOMAIN logs \cup DOMAIN payload_logs |->
                  IF d \in DOMAIN payload_logs
                  THEN LogRow(payload_logs[d], time, client_id)
                  ELSE logs[d]],
              [k \in DOMAIN meta \cup {"last_server_sync_time"} |->
                  IF k = "last_server_sync_time" THEN time ELSE meta[k]])

----------------------------------------------------------------------------
(* Specification of the sync server called by clients one request after      *)
(* another, with plans written through set_workout_plan in between          *)

\* Requests and plan writes are made while the clock is below this bound.
MaxSyncTime == 5

C_phone10 == <<"p", "h", "o", "n", "e", "-", "1", "2", "3", "4">>
C_tab == <<"t", "a", "b">>

\* The ids clients sync with; only the first registers.
ClientIds == {C_phone10, C_tab}

S_MyPhone == <<"M", "y", " ", "p", "h", "o", "n", "e">>

\* The names the client registers with.
ClientNames == {PyNone, PyStr(<<>>), PyStr(S_MyPhone)}

D_1231_2025 == <<"2", "0", "2", "5", "-", "1", "2", "-", "3", "1">>

\* The payloads of logs that are uploaded; the last has a log for a day more
\* than 30 days before the day of the clock.
Payloads ==
    {EmptyDict,
     (D_0202 :> A_Done),
     (D_0202 :> A_Partly) @@ (D_0201 :> A_Done),
     (D_1231_2025 :> A_Partly)}

\* The plans written between the requests.
SyncedPlans == {P_Upper, P_Rest}

\* The server starts one tick into the clock: the four instants of the
\* requests are 10:00:00.75, 10:00:01, 10:00:01.25 and 10:00:01.5, the second
\* of which datetime.isoformat() prints without a fraction.
InitSync ==
    /\ workout_plans = EmptyDict
    /\ now = 1
    /\ call = NoCall
    /\ response = Return(PyNone)
    /\ before = EmptyDict
    /\ workout_logs = EmptyDict
    /\ NoRequestMade
    /\ NoCallInFlight
    /\ pc = "idle"
    /\ block = PyNone
    /\ block_index = 0
    /\ result = Pending
    /\ plan_data = PyNone
    /\ plan = Pending
    /\ script_plan = Pending

\* One request r answered as `served`; time passes before the next one.
Serve(r, served) ==
    /\ request' = r
    /\ reply' = served.reply
    /\ logs_before' = workout_logs
    /\ clients_before' = clients
    /\ clients' = served.clients
    /\ workout_logs' = served.logs
    /\ meta_sync' = served.meta_sync
    /\ uploaded' = [d \in DOMAIN uploaded \cup DOMAIN r.logs |->
                       IF d \in DOMAIN r.logs THEN r.logs[d] ELSE uploaded[d]]
    /\ registered' = IF r.endpoint = "register"
                     THEN InsertOrReplace(registered, r.client_id, r.client_name)
                     ELSE registered
    /\ server_times' = IF served.reply.serverTime = <<>> THEN server_times
                       ELSE server_times \cup {served.reply.serverTime}
    /\ now' = now + 1
    /\ call' = NoCall
    /\ response' = Return(PyNone)
    /\ before' = workout_plans
    /\ UNCHANGED workout_plans
    /\ UNCHANGED transformVars
    /\ UNCHANGED raceVars

RegisterClient ==
    /\ now < MaxSyncTime
    /\ \E name \in ClientNames :
           Serve([NoRequest EXCEPT !.endpoint = "register", !.client_id = C_phone10,
                                   !.client_name = name],
                 register_client(clients, workout_logs, meta_sync, now, C_phone10, name))

WorkoutSyncGet ==
    /\ now < MaxSyncTime
    /\ \E id \in ClientIds, since \in {PyNone, PyStr(<<>>)} \cup {PyStr(t) : t \in server_times} :
           Serve([NoRequest EXCEPT !.endpoint = "sync_get", !.client_id = id,
                                   !.last_sync_time = since],
                 workout_sync_get(workout_plans, clients, workout_logs, meta_sync, now, id, since))

WorkoutSyncPost ==
    /\ now < MaxSyncTime
    /\ \E id \in ClientIds, payload \in Payloads :
           Serve([NoRequest EXCEPT !.endpoint = "sync_post", !.client_id = id,
                                   !.logs = payload],
                 workout_sync_post(clients, workout_logs, meta_sync, now, id, payload))

\* set_workout_plan called between the requests
SetWorkoutPlanBetweenRequests ==
    /\ now < MaxSyncTime
    /\ \E d \in EditDates, p \in SyncedPlans :
           Run([NoCall EXCEPT !.tool = "set_workout_plan", !.date = d, !.arg = p],
               set_workout_plan(workout_plans, now, d, p))

NextSync ==
    \/ RegisterClient
    \/ WorkoutSyncGet
    \/ WorkoutSyncPost
    \/ SetWorkoutPlanBetweenRequests

SpecSync == InitSync /\ [][NextSync]_vars

----------------------------------------------------------------------------
(* Specification of two MCP sessions and a syncing client that run at the    *)
(* same time on one database.  A tool call is a read of the table, a read   *)
(* of the clock and a write, each with a connection of its own              *)
(* (execute_query, get_utc_now, execute_write); a GET sync reads the clock  *)
(* and then updates and selects in one transaction.                         *)

\* The clock is read while it is below this bound.
MaxRaceTime == 6

\* The date every call of the sessions is about.
RaceDate == D_0202

\* The calls a session makes.
RaceCalls ==
    {[NoCall EXCEPT !.tool = "add_exercise", !.date = RaceDate, !.arg = ExC],
     [NoCall EXCEPT !.tool = "update_exercise", !.date = RaceDate, !.exercise_id = <<"a">>,
                    !.arg = U_Sets],
     [NoCall EXCEPT !.tool = "remove_exercise", !.date = RaceDate, !.exercise_id = <<"b">>],
     [NoCall EXCEPT !.tool = "update_plan_metadata", !.date = RaceDate,
                    !.arg = PyDict([day_name |-> PyStr(M_Gym)])],
     [NoCall EXCEPT !.tool = "delete_workout_plan", !.date = RaceDate],
     [NoCall EXCEPT !.tool = "set_workout_plan", !.date = RaceDate, !.arg = P_Upper]}

\* The tools that read a plan, change it in memory and write it back.
PartialUpdates == {"update_exercise", "add_exercise", "remove_exercise", "update_plan_metadata"}

\* What call c does on the table `rows` at clock reading t.
ToolOutcome(c, rows, t) ==
    CASE c.tool = "add_exercise" -> add_exercise(rows, t, c.date, c.arg, c.position)
      [] c.tool = "update_exercise" -> update_exercise(rows, t, c.date, c.exercise_id, c.arg)
      [] c.tool = "remove_exercise" -> remove_exercise(rows, t, c.date, c.exercise_id)
      [] c.tool = "update_plan_metadata" -> update_plan_metadata(rows, t, c.date, c.arg)
      [] c.tool = "delete_workout_plan" -> delete_workout_plan(rows, t, c.date)
      [] c.tool = "set_workout_plan" -> set_workout_plan(rows, t, c.date, c.arg)

\* A write of a partial update that gives way to a row stamped later.
ExecuteWriteOn_NewerStampWins(rows, c, row) ==
    IF c.tool = "delete_workout_plan" THEN Delete(rows, c.date)
    ELSE IF c.tool = "set_workout_plan" THEN InsertOrReplace(rows, c.date, row)
    ELSE IF c.date \in DOMAIN rows /\ StrLess(rows[c.date].last_modified, row.last_modified)
         THEN Update(rows, c.date, row)
    ELSE rows

\* The table after the statement call c hands to execute_write: the UPDATE of
\* a partial update changes the row of the date if there is one, the INSERT
\* OR REPLACE of set_workout_plan puts the row, the DELETE removes it.
ExecuteWriteOn(rows, c, row) ==
    IF c.tool = "delete_workout_plan" THEN Delete(rows, c.date)
    ELSE IF c.tool = "set_workout_plan" THEN InsertOrReplace(rows, c.date, row)
    ELSE IF c.date \in DOMAIN rows THEN Update(rows, c.date, row)
    ELSE rows

\* The table holds one plan, written before the sessions and the client start
\* and not yet sent to the client.  The clock readings of the run are
\* 10:00:01.25, 10:00:01.5 and 10:00:01.75.
InitRace ==
    /\ workout_plans = (RaceDate :> Row(P_Lower, 0))
    /\ now = 3
    /\ call = NoCall
    /\ response = Return(PyNone)
    /\ before = EmptyDict
    /\ workout_logs = EmptyDict
    /\ NoRequestMade
    /\ session = [s \in Sessions |-> IdleSession]
    /\ sync_pc = "idle"
    /\ sync_stamp = 0
    /\ client_sync_time = PyNone
    /\ delivered = {}
    /\ unsynced = {RaceDate}
    /\ pc = "idle"
    /\ block = PyNone
    /\ block_index = 0
    /\ result = Pending
    /\ plan_data = PyNone
    /\ plan = Pending
    /\ script_plan = Pending

\* A session starts a call: the tool checks its arguments and reads the plan
\* of the date; a call that fails here is over.
ReadPlan(s) ==
    /\ session[s].pc = "idle"
    /\ \E c \in RaceCalls :
          LET out == ToolOutcome(c, workout_plans, now)
          IN session' = [session EXCEPT ![s] =
                            [@ EXCEPT !.call = c,
                                      !.snapshot = workout_plans,
                                      !.pc = IF out.response.ok THEN "read" ELSE "done",
                                      !.outcome = IF out.response.ok THEN @ ELSE out.response]]
    /\ UNCHANGED <<storeVars, syncVars, transformVars>>
    /\ UNCHANGED <<sync_pc, sync_stamp, client_sync_time, delivered, unsynced>>

\* now = get_utc_now() of a call that writes a row
TakeTimestamp(s) ==
    /\ session[s].pc = "read"
    /\ session[s].call.tool # "delete_workout_plan"
    /\ now < MaxRaceTime
    /\ session' = [session EXCEPT ![s] = [@ EXCEPT !.stamp = now, !.pc = "stamped"]]
    /\ now' = now + 1
    /\ UNCHANGED <<workout_plans, call, response, before, workout_logs>>
    /\ UNCHANGED <<syncVars, transformVars>>
    /\ UNCHANGED <<sync_pc, sync_stamp, client_sync_time, delivered, unsynced>>

\* db_manager.execute_write(...) of the call, and the call returns.
ExecuteWrite(s) ==
    /\ \/ session[s].pc = "stamped"
       \/ session[s].pc = "read" /\ session[s].call.tool = "delete_workout_plan"
    /\ LET c == session[s].call
           out == ToolOutcome(c, session[s].snapshot, session[s].stamp)
           written == ExecuteWriteOn(workout_plans, c,
                                     IF c.date \in DOMAIN out.rows THEN out.rows[c.date]
                                     ELSE Row(PyNone, 0))
       IN /\ workout_plans' = written
          /\ session' = [session EXCEPT ![s] =
                            [@ EXCEPT !.pc = "done",
                                      !.outcome = out.response,
                                      !.after = written,
                                      !.seq = 1 + Cardinality({o \in Sessions : session[o].seq > 0}),
                                      !.pending = {o \in Sessions \ {s} :
                                                     session[o].pc \in {"read", "stamped"}}]]
          /\ unsynced' = unsynced \cup {c.date}
    /\ UNCHANGED <<now, call, response, before, workout_logs>>
    /\ UNCHANGED <<syncVars, transformVars>>
    /\ UNCHANGED <<sync_pc, sync_stamp, client_sync_time, delivered>>

\* The client sends GET /api/workout/sync with the serverTime of its previous
\* response; the handler reads the clock.
SyncTakeTimestamp ==
    /\ sync_pc = "idle"
    /\ now < MaxRaceTime
    /\ sync_stamp' = now
    /\ sync_pc' = "stamped"
    /\ now' = now + 1
    /\ UNCHANGED <<workout_plans, call, response, before, workout_logs>>
    /\ UNCHANGED <<syncVars, transformVars>>
    /\ UNCHANGED <<session, client_sync_time, delivered, unsynced>>

\* The transaction of the handler: the UPDATE of clients and the SELECTs; the
\* client keeps the plans and the serverTime of the response.
SyncSelect ==
    /\ sync_pc = "stamped"
    /\ LET served == workout_sync_get(workout_plans, clients, workout_logs, meta_sync,
                                      sync_stamp, C_tab, client_sync_time)
       IN /\ request' = [NoRequest EXCEPT !.endpoint = "sync_get", !.client_id = C_tab,
                                          !.last_sync_time = client_sync_time]
          /\ reply' = served.reply
          /\ clients' = served.clients
          /\ client_sync_time' = PyStr(served.reply.serverTime)
          /\ server_times' = server_times \cup {served.reply.serverTime}
          /\ delivered' = delivered \cup
                             {<<d, served.reply.plans[d].m["_lastModified"].s>> :
                                 d \in DOMAIN served.reply.plans}
    /\ unsynced' = {}
    /\ sync_pc' = "idle"
    /\ logs_before' = workout_logs
    /\ clients_before' = clients
    /\ UNCHANGED <<meta_sync, uploaded, registered>>
    /\ UNCHANGED <<storeVars, transformVars>>
    /\ UNCHANGED <<session, sync_stamp>>

NextRace ==
    \/ \E s \in Sessions : ReadPlan(s)
    \/ \E s \in Sessions : TakeTimestamp(s)
    \/ \E s \in Sessions : ExecuteWrite(s)
    \/ SyncTakeTimestamp
    \/ SyncSelect

SpecRace == InitRace /\ [][NextRace]_vars

----------------------------------------------------------------------------
(* Vocabulary of the documented display hints.  The block format documents *)
(* hide_weight and show_time (test/unit/test_transform.py); these          *)
(* definitions state the documented rule the claims compare the code with. *)

UpperCase ==
    <<"A", "B", "C", "D", "E", "F", "G", "H", "I", "J", "K", "L", "M",
      "N", "O", "P", "Q", "R", "S", "T", "U", "V", "W", "X", "Y", "Z">>
LowerCase ==
    <<"a", "b", "c", "d", "e", "f", "g", "h", "i", "j", "k", "l", "m",
      "n", "o", "p", "q", "r", "s", "t", "u", "v", "w", "x", "y", "z">>

\* str.lower()
ToLower(s) ==
    [i \in 1..Len(s) |->
        IF \E j \in 1..Len(UpperCase) : UpperCase[j] = s[i]
        THEN LowerCase[CHOOSE j \in 1..Len(UpperCase) : UpperCase[j] = s[i]]
        ELSE s[i]]

BodyweightVocabulary ==
    {<<"p", "u", "s", "h", "-", "u", "p">>, <<"p", "u", "s", "h", "u", "p">>,
     <<"p", "u", "s", "h", " ", "u", "p">>, <<"b", "a", "n", "d">>,
     <<"b", "o", "d", "y", "w", "e", "i", "g", "h", "t">>, <<"j", "u", "m", "p">>,
     <<"p", "l", "a", "n", "k">>, <<"d", "e", "a", "d", " ", "h", "a", "n", "g">>,
     <<"w", "a", "l", "l", " ", "s", "i", "t">>,
     <<"g", "l", "u", "t", "e", " ", "b", "r", "i", "d", "g", "e">>}

\* The documented name heuristic: the name holds a bodyweight/band keyword.
_is_bodyweight_or_band(name) ==
    \E w \in BodyweightVocabulary : Contains(ToLower(name), w)

\* The documented hide_weight rule of a sub-exercise dict.
ShouldHideWeight(ex) ==
    IF "equipment" \in DOMAIN ex
    THEN ex["equipment"] \in {PyStr(E_bodyweight), PyStr(E_band)}
    ELSE "name" \in DOMAIN ex /\ _is_bodyweight_or_band(ex["name"].s)

\* The documented show_time rule: reps is a str holding a seconds marker.
IsDurationReps(ex) ==
    /\ "reps" \in DOMAIN ex
    /\ ex["reps"].t = "str"
    /\ Contains(ToLower(ex["reps"].s), <<"s", "e", "c">>)

----------------------------------------------------------------------------
(* The block format: what a well-formed input is *)

HasType(d, key, types) == key \in DOMAIN d => d[key].t \in types

\* A sub-exercise as documented: a dict of str fields, sets and reps int or str.
WellFormedSub(ex) ==
    /\ ex.t = "map"
    /\ \A k \in {"name", "tempo", "load_guide", "notes", "equipment"} :
           HasType(ex.m, k, {"str"})
    /\ HasType(ex.m, "sets", {"int", "str"})
    /\ HasType(ex.m, "reps", {"int", "str"})

\* A block as documented: str and int fields, a list of sub-exercises, a list
\* of instruction strs.
WellFormedBlock(b) ==
    /\ b.t = "map"
    /\ \A k \in {"block_type", "title", "rest_guidance"} : HasType(b.m, k, {"str"})
    /\ HasType(b.m, "duration_min", {"int"})
    /\ HasType(b.m, "rounds", {"int"})
    /\ HasType(b.m, "exercises", {"list"})
    /\ HasType(b.m, "instructions", {"list"})
    /\ "exercises" \in DOMAIN b.m =>
           \A k \in 1..Len(b.m["exercises"].l) : WellFormedSub(b.m["exercises"].l[k])
    /\ "instructions" \in DOMAIN b.m =>
           \A k \in 1..Len(b.m["instructions"].l) : b.m["instructions"].l[k].t = "str"

\* The call has returned or raised.
Done == pc = "done"

\* The finished call was given a well-formed block.
DoneWellFormed == Done /\ WellFormedBlock(block)

\* The sub-exercises of the block of the call (none when the key is absent).
Subs == IF "exercises" \in DOMAIN block.m THEN block.m["exercises"].l ELSE <<>>

\* The instruction strs of the block of the call.
Instructions ==
    IF "instructions" \in DOMAIN block.m
    THEN [k \in 1..Len(block.m["instructions"].l) |-> block.m["instructions"].l[k].s]
    ELSE <<>>

BlockType == Get(block.m, "block_type", PyStr(<<>>))
BlockTitle == Get(block.m, "title", PyStr(<<>>))
RestGuidance == Get(block.m, "rest_guidance", PyStr(<<>>))

\* The finished call took the per-item branch on a well-formed block.
DonePerItem == DoneWellFormed /\ BlockType # PyStr(S_warmup) /\ "exercises" \in DOMAIN block.m

\* The finished call returned one exercise per sub-exercise.
OnePerSub == result.ok /\ Len(result.val) = Len(Subs)

----------------------------------------------------------------------------
(* Claims about _transform_block_to_exercises (SpecBlock) *)

\* C1: for every sub-exercise of a non-warmup block with sub-exercises,
\* target_sets is the explicit truthy `sets` (an int kept, any other truthy
\* value 3); with `sets` absent it is the block's `rounds` when the block
\* carries one, and the field is absent when neither is present.
C1_TargetSetsPrecedence ==
    DonePerItem =>
        /\ OnePerSub
        /\ \A k \in 1..Len(Subs) :
              LET ex == Subs[k].m
                  e == result.val[k]
              IN /\ Truthy(Get(ex, "sets", PyNone)) =>
                        /\ "target_sets" \in DOMAIN e
                        /\ e["target_sets"] =
                               IF IsInt(ex["sets"]) THEN ex["sets"] ELSE PyInt(3)
                 /\ ("sets" \notin DOMAIN ex /\ "rounds" \in DOMAIN block.m) =>
                        /\ "target_sets" \in DOMAIN e
                        /\ e["target_sets"] = block.m["rounds"]
                 /\ ("sets" \notin DOMAIN ex /\ "rounds" \notin DOMAIN block.m) =>
                        "target_sets" \notin DOMAIN e

\* C2: for every per-item exercise, hide_weight is present and true exactly
\* when the sub-exercise's equipment is bodyweight or band, or equipment is
\* absent and the name matches the bodyweight/band vocabulary; otherwise the
\* field is absent.
C2_HideWeight ==
    DonePerItem =>
        /\ OnePerSub
        /\ \A k \in 1..Len(Subs) :
              LET ex == Subs[k].m
                  e == result.val[k]
              IN IF ShouldHideWeight(ex)
                 THEN "hide_weight" \in DOMAIN e /\ e["hide_weight"] = PyTrue
                 ELSE "hide_weight" \notin DOMAIN e

\* C3: for every per-item exercise, show_time is present and true if and only
\* if reps is a str holding a seconds marker (case-insensitive); otherwise the
\* field is absent; a reps str is carried unchanged in target_reps.
C3_ShowTime ==
    DonePerItem =>
        /\ OnePerSub
        /\ \A k \in 1..Len(Subs) :
              LET ex == Subs[k].m
                  e == result.val[k]
              IN /\ IF IsDurationReps(ex)
                    THEN "show_time" \in DOMAIN e /\ e["show_time"] = PyTrue
                    ELSE "show_time" \notin DOMAIN e
                 /\ ("reps" \in DOMAIN ex /\ ex["reps"].t = "str" /\ Truthy(ex["reps"])) =>
                        "target_reps" \in DOMAIN e /\ e["target_reps"] = ex["reps"]

\* What C4 promises of the result of a warmup block: exactly one checklist
\* exercise "warmup_{i}", named by the title or "Warmup", with one item per
\* sub-exercise.
OneWarmupChecklist ==
    /\ result.ok
    /\ Len(result.val) = 1
    /\ result.val[1]["type"] = PyStr(S_checklist)
    /\ result.val[1]["id"] = PyStr(S_warmup \o <<"_">> \o IntToStr(block_index))
    /\ result.val[1]["name"] = IF Len(BlockTitle.s) > 0 THEN BlockTitle ELSE PyStr(S_Warmup)
    /\ "items" \in DOMAIN result.val[1]
    /\ Len(result.val[1]["items"].l) = Len(Subs)

\* C4 as claimed: every block whose block_type is "warmup" yields exactly one
\* checklist exercise "warmup_{i}" with one item per sub-exercise.
C4_EveryWarmupBlock ==
    (DoneWellFormed /\ BlockType = PyStr(S_warmup)) => OneWarmupChecklist

\* C4 as amended: every block whose block_type is "warmup" and that carries an
\* `exercises` key yields exactly one checklist exercise "warmup_{i}", named by
\* the title or "Warmup", with one item per sub-exercise.
C4_WarmupBlockWithExercises ==
    (DoneWellFormed /\ BlockType = PyStr(S_warmup) /\ "exercises" \in DOMAIN block.m)
        => OneWarmupChecklist

C4_Witness ==
    /\ DoneWellFormed
    /\ BlockType = PyStr(S_warmup)
    /\ Len(Subs) = 2
    /\ "title" \notin DOMAIN block.m
    /\ block_index = 12
    /\ result.ok
    /\ result.val[1]["name"] = PyStr(S_Warmup)
    /\ result.val[1]["id"] = PyStr(<<"w", "a", "r", "m", "u", "p", "_", "1", "2">>)
    /\ Len(result.val[1]["items"].l) = 2

\* C5: every non-warmup block with n sub-exercises yields exactly n exercises
\* in input order, the k-th with id "{block_type}_{i}_{k}" and the k-th
\* sub-exercise's name ("Unknown" when absent), whatever the block_type.
C5_OneExercisePerSub ==
    DonePerItem =>
        /\ OnePerSub
        /\ \A k \in 1..Len(Subs) :
              /\ result.val[k]["id"] =
                     PyStr(BlockType.s \o <<"_">> \o IntToStr(block_index)
                           \o <<"_">> \o IntToStr(k))
              /\ result.val[k]["name"] =
                     IF "name" \in DOMAIN Subs[k].m THEN Subs[k].m["name"]
                     ELSE PyStr(S_Unknown)

C5_Witness ==
    /\ DonePerItem
    /\ BlockType = PyStr(B_mobility)
    /\ block_index = 12
    /\ Len(Subs) = 2
    /\ "name" \notin DOMAIN Subs[2].m
    /\ result.ok
    /\ result.val[1]["name"] = PyStr(N_PushUps)
    /\ result.val[2]["name"] = PyStr(S_Unknown)
    /\ result.val[2]["id"] = PyStr(<<"m", "o", "b", "_", "1", "2", "_", "2">>)

\* C6: a block with no sub-exercises (`exercises` absent or empty) and a
\* non-empty `instructions` list yields exactly one exercise, with id
\* "{block_type}_{i}_1", target_duration_min the block's duration_min (0 when
\* absent) and guidance_note the instructions joined with " | ".
C6_InstructionBlockOneExercise ==
    (DoneWellFormed /\ Len(Subs) = 0 /\ Len(Instructions) > 0) =>
        /\ result.ok
        /\ Len(result.val) = 1
        /\ result.val[1]["id"] =
               PyStr(BlockType.s \o <<"_">> \o IntToStr(block_index) \o <<"_", "1">>)
        /\ "target_duration_min" \in DOMAIN result.val[1]
        /\ result.val[1]["target_duration_min"] = Get(block.m, "duration_min", PyInt(0))
        /\ result.val[1]["guidance_note"] = PyStr(JoinStrs(<<" ", "|", " ">>, Instructions))

\* C7: for every instruction-based block, the exercise is an "interval" named
\* "VO2 Max Intervals" when the instructions joined with one space contain
\* "VO2" or "HARD" (case-sensitive), whatever the title; otherwise it is a
\* "duration" named by the title, or "Zone 2 Cardio" when the title is empty
\* or absent.
C7_IntervalOrDuration ==
    (DoneWellFormed /\ "exercises" \notin DOMAIN block.m /\ "instructions" \in DOMAIN block.m)
        => /\ result.ok
           /\ Len(result.val) = 1
           /\ LET joined == JoinStrs(<<" ">>, Instructions)
                  e == result.val[1]
              IN IF Contains(joined, S_VO2) \/ Contains(joined, S_HARD)
                 THEN e["type"] = PyStr(S_interval) /\ e["name"] = PyStr(S_VO2MaxIntervals)
                 ELSE /\ e["type"] = PyStr(S_duration)
                      /\ e["name"] = IF Len(BlockTitle.s) > 0 THEN BlockTitle
                                     ELSE PyStr(S_Zone2Cardio)

C7_Witness ==
    /\ DoneWellFormed
    /\ "exercises" \notin DOMAIN block.m
    /\ BlockTitle = PyStr(Title_T)
    /\ Instructions = <<I_Easy, I_goHARD>>
    /\ result.ok
    /\ result.val[1]["type"] = PyStr(S_interval)
    /\ result.val[1]["name"] = PyStr(S_VO2MaxIntervals)

\* The parts C8 lists for a sub-exercise dict, in the claimed order.
ClaimedGuidanceParts(ex) ==
    LET Has(k) == k \in DOMAIN ex /\ Truthy(ex[k])
    IN (IF Has("tempo") THEN <<S_Tempo \o ex["tempo"].s>> ELSE <<>>)
       \o (IF Has("load_guide") THEN <<ex["load_guide"].s>> ELSE <<>>)
       \o (IF Has("notes") THEN <<ex["notes"].s>> ELSE <<>>)
       \o (IF BlockType = PyStr(S_strength) /\ Truthy(RestGuidance)
           THEN <<RestGuidance.s>> ELSE <<>>)

\* C8: for every per-item exercise, guidance_note is the ". "-joined sequence
\* of "Tempo {tempo}", load_guide, notes and, only when block_type is exactly
\* "strength", the block's rest_guidance; the rest_guidance of a circuit or
\* power block appears in no guidance_note; the field is absent when no part
\* was collected.
C8_GuidanceNote ==
    DonePerItem =>
        /\ OnePerSub
        /\ \A k \in 1..Len(Subs) :
              LET parts == ClaimedGuidanceParts(Subs[k].m)
                  e == result.val[k]
              IN /\ IF Len(parts) = 0 THEN "guidance_note" \notin DOMAIN e
                    ELSE /\ "guidance_note" \in DOMAIN e
                         /\ e["guidance_note"] = PyStr(JoinStrs(<<".", " ">>, parts))
                 /\ (/\ BlockType \in {PyStr(S_circuit), PyStr(S_power)}
                     /\ Truthy(RestGuidance)
                     /\ "guidance_note" \in DOMAIN e)
                        => ~Contains(e["guidance_note"].s, RestGuidance.s)

C8_Witness ==
    /\ DonePerItem
    /\ BlockType = PyStr(S_strength)
    /\ RestGuidance = PyStr(G_Rest)
    /\ Len(Subs) = 1
    /\ {"tempo", "load_guide", "notes"} \subseteq DOMAIN Subs[1].m
    /\ Truthy(Subs[1].m["tempo"])
    /\ result.ok
    /\ result.val[1]["guidance_note"] =
           PyStr(S_Tempo \o T_311 \o <<".", " ">> \o L_Heavy \o <<".", " ">> \o X_Slow
                 \o <<".", " ">> \o G_Rest)

\* C9: _transform_block_to_exercises never raises, whatever the block: missing
\* and malformed fields resolve to defaults.
C9_NeverRaises == Done => result.ok

----------------------------------------------------------------------------
(* Claims about _transform_block_plan (SpecPlan) *)

\* C10: in every plan _transform_block_plan returns, the ids of the flat
\* `exercises` list are pairwise distinct.
C10_UniqueIds ==
    (Done /\ plan.ok) =>
        \A i, j \in 1..Len(plan.val["exercises"]) :
            i # j => plan.val["exercises"][i]["id"] # plan.val["exercises"][j]["id"]

C10_Witness ==
    /\ Done
    /\ plan.ok
    /\ Len(plan.val["blocks"]) = 2
    /\ plan.val["blocks"][1]["block_type"] = PyStr(S_strength)
    /\ plan.val["blocks"][2]["block_type"] = PyStr(S_strength)
    /\ Len(plan.val["blocks"][1]["exercises"]) = 2
    /\ Len(plan.val["blocks"][2]["exercises"]) = 2
    /\ Len(plan.val["exercises"]) = 4

\* The blocks of the input plan of the call (none when the key is absent).
InputBlocks == Get(plan_data, "blocks", PyList(<<>>)).l

\* C11: in every plan _transform_block_plan returns, `blocks` has one record
\* per input block, in input order, with block_index the block's 0-based
\* position, and the flat `exercises` list is the concatenation, in block
\* order, of the blocks' own `exercises` lists.
C11_BlocksAndFlatList ==
    (Done /\ plan.ok) =>
        LET bl == plan.val["blocks"]
            fl == plan.val["exercises"]
            n == Len(bl)
            Before[k \in 0..n] ==
                IF k = 0 THEN 0 ELSE Before[k - 1] + Len(bl[k]["exercises"])
        IN /\ n = Len(InputBlocks)
           /\ \A k \in 1..n :
                 /\ bl[k]["block_index"] = PyInt(k - 1)
                 /\ bl[k]["block_type"] = Get(InputBlocks[k].m, "block_type", PyStr(<<>>))
                 /\ bl[k]["title"] = Get(InputBlocks[k].m, "title", PyStr(<<>>))
                 /\ bl[k]["exercises"] =
                        _transform_block_to_exercises(InputBlocks[k], k - 1).val
                 /\ \A j \in 1..Len(bl[k]["exercises"]) :
                        fl[Before[k - 1] + j] = bl[k]["exercises"][j]
           /\ Len(fl) = Before[n]

C11_Witness ==
    /\ Done
    /\ plan.ok
    /\ Len(plan.val["blocks"]) = 2
    /\ plan.val["blocks"][1]["block_type"] = PyStr(S_warmup)
    /\ Len(plan.val["blocks"][1]["exercises"]) = 0
    /\ plan.val["blocks"][2]["block_index"] = PyInt(1)
    /\ Len(plan.val["blocks"][2]["exercises"]) = 2
    /\ plan.val["exercises"] = plan.val["blocks"][2]["exercises"]

\* C12: _transform_block_plan copies the plan-level metadata of the input,
\* with the defaults "Workout" (for `theme`, stored as day_name), "Home",
\* "Foundation" and 60 for a key the input does not carry; an input whose
\* `blocks` key is missing or empty yields empty `blocks` and `exercises`.
C12_MetadataDefaults ==
    Done =>
        /\ plan.ok =>
              /\ plan.val["day_name"] =
                     IF "theme" \in DOMAIN plan_data THEN plan_data["theme"]
                     ELSE PyStr(S_Workout)
              /\ plan.val["location"] =
                     IF "location" \in DOMAIN plan_data THEN plan_data["location"]
                     ELSE PyStr(S_Home)
              /\ plan.val["phase"] =
                     IF "phase" \in DOMAIN plan_data THEN plan_data["phase"]
                     ELSE PyStr(S_Foundation)
              /\ plan.val["total_duration_min"] =
                     IF "total_duration_min" \in DOMAIN plan_data
                     THEN plan_data["total_duration_min"] ELSE PyInt(60)
        /\ ("blocks" \notin DOMAIN plan_data \/ plan_data["blocks"] = PyList(<<>>)) =>
              /\ plan.ok
              /\ plan.val["blocks"] = <<>>
              /\ plan.val["exercises"] = <<>>

C12_Witness ==
    /\ Done
    /\ "blocks" \notin DOMAIN plan_data
    /\ DOMAIN plan_data = {"theme"}
    /\ plan.ok
    /\ plan.val["day_name"] = PyStr(M_Lower)
    /\ plan.val["location"] = PyStr(S_Home)
    /\ plan.val["phase"] = PyStr(S_Foundation)
    /\ plan.val["total_duration_min"] = PyInt(60)
    /\ plan.val["exercises"] = <<>>

----------------------------------------------------------------------------
(* Further claims about _transform_block_to_exercises (SpecBlock) *)

\* C13: a block that has no sub-exercises and no non-empty instructions
\* sequence (a block whose `instructions` list is empty included) makes
\* _transform_block_to_exercises return the empty list: no error and no
\* placeholder exercise.
C13_NoDispatchEmpty ==
    (DoneWellFormed /\ Len(Subs) = 0 /\ Len(Instructions) = 0) =>
        /\ result.ok
        /\ Len(result.val) = 0

\* The name C14 renders for a sub-exercise dict.
ClaimedItemName(ex) == IF "name" \in DOMAIN ex THEN ex["name"].s ELSE S_Unknown

\* The finished call took the warmup branch on a well-formed block.
DoneWarmup == DoneWellFormed /\ BlockType = PyStr(S_warmup) /\ "exercises" \in DOMAIN block.m

\* The k-th checklist item of the finished warmup call.
Item(k) == result.val[1]["items"].l[k]

\* C14 as claimed: the k-th checklist item of a warmup block is "{name} x{reps}"
\* when the k-th sub-exercise's reps is an integer, "{name} {reps}" when it is
\* a non-empty string, and "{name}" when there are no reps.
C14_ItemPerSub ==
    DoneWarmup =>
        /\ result.ok
        /\ Len(result.val[1]["items"].l) = Len(Subs)
        /\ \A k \in 1..Len(Subs) :
              LET ex == Subs[k].m
                  reps == Get(ex, "reps", PyStr(<<>>))
              IN Item(k) =
                     IF reps.t = "int"
                     THEN PyStr(ClaimedItemName(ex) \o <<" ", "x">> \o IntToStr(reps.i))
                     ELSE IF Len(reps.s) > 0
                     THEN PyStr(ClaimedItemName(ex) \o <<" ">> \o reps.s)
                     ELSE PyStr(ClaimedItemName(ex))

\* C14 as amended: the k-th checklist item of a warmup block is "{name} x{reps}"
\* when the k-th sub-exercise's reps is a non-zero integer, "{name} {reps}"
\* when it is a non-empty string, and "{name}" when reps is absent, 0 or the
\* empty string.
C14_ItemPerSubNonZero ==
    DoneWarmup =>
        /\ result.ok
        /\ Len(result.val[1]["items"].l) = Len(Subs)
        /\ \A k \in 1..Len(Subs) :
              LET ex == Subs[k].m
                  reps == Get(ex, "reps", PyStr(<<>>))
              IN Item(k) =
                     IF reps.t = "int" /\ reps.i # 0
                     THEN PyStr(ClaimedItemName(ex) \o <<" ", "x">> \o IntToStr(reps.i))
                     ELSE IF reps.t = "str" /\ Len(reps.s) > 0
                     THEN PyStr(ClaimedItemName(ex) \o <<" ">> \o reps.s)
                     ELSE PyStr(ClaimedItemName(ex))

C14_Witness ==
    /\ DoneWarmup
    /\ Len(Subs) = 2
    /\ "name" \notin DOMAIN Subs[1].m
    /\ Get(Subs[1].m, "reps", PyNone) = PyInt(5)
    /\ Get(Subs[2].m, "reps", PyNone) = PyInt(0)
    /\ result.ok
    /\ Item(1) = PyStr(<<"U", "n", "k", "n", "o", "w", "n", " ", "x", "5">>)
    /\ Item(2) = PyStr(N_Row)

----------------------------------------------------------------------------
(* Claims about the MCP tools (Spec) *)

\* The tool that ran last.
Called(tool) == call.tool = tool

\* The plan a table holds for a date.
PlanAt(rows, d) == StoredPlan(rows, d)

\* The exercises of the plan a table holds for a date.
ExercisesAt(rows, d) == ExercisesOf(PlanAt(rows, d))

\* The rows of all dates but d are the same before and after the call that
\* ran last, and no date but d got or lost a row.
OtherDatesUnchanged(d) ==
    /\ DOMAIN workout_plans \ {d} = DOMAIN before \ {d}
    /\ \A o \in DOMAIN before \ {d} : workout_plans[o] = before[o]

\* C15: after any sequence of MCP tool calls every stored plan has an
\* `exercises` list in which each exercise has id, name and a type from the
\* allowed list, and the exercise ids of the plan are pairwise distinct.
C15_StoredPlansValid ==
    \A d \in DOMAIN workout_plans :
        LET p == PlanAt(workout_plans, d)
        IN /\ "exercises" \in DOMAIN p.m
           /\ p.m["exercises"].t = "list"
           /\ \A i \in 1..Len(p.m["exercises"].l) :
                 LET ex == p.m["exercises"].l[i]
                 IN /\ ex.t = "map"
                    /\ {"id", "name", "type"} \subseteq DOMAIN ex.m
                    /\ ex.m["type"] \in ValidTypes
           /\ \A i, j \in 1..Len(p.m["exercises"].l) :
                 i # j => IdOf(p.m["exercises"].l[i]) # IdOf(p.m["exercises"].l[j])

\* The day a date text names, as a number that orders days as the calendar does.
CalendarDay(s) ==
    strptime(s).val[1] * 10000 + strptime(s).val[2] * 100 + strptime(s).val[3]

\* The day of date text d lies within the days of start_date and end_date.
WithinRange(d, start_date, end_date) ==
    CalendarDay(start_date) <= CalendarDay(d) /\ CalendarDay(d) <= CalendarDay(end_date)

\* The list a get_workout_plan over the range returns from the table as it is.
Got(start_date, end_date) ==
    get_workout_plan(workout_plans, now, start_date, end_date).response.val.l

\* C16: after a successful set_workout_plan(d, p), get_workout_plan over any
\* range containing d returns for d exactly p and the plans of all other dates
\* are unchanged; get_workout_plan returns only dates within
\* [start_date, end_date], in ascending date order.
C16_SetReplacesGetReturns ==
    /\ (Called("set_workout_plan") /\ response.ok) =>
          /\ OtherDatesUnchanged(call.date)
          /\ \A r \in Ranges :
                WithinRange(call.date, r[1], r[2]) =>
                    \E i \in 1..Len(Got(r[1], r[2])) :
                        /\ Got(r[1], r[2])[i].m["date"] = PyStr(call.date)
                        /\ Got(r[1], r[2])[i].m["plan"] = call.arg
    /\ Called("get_workout_plan") =>
          /\ response.ok
          /\ \A i \in 1..Len(response.val.l) :
                WithinRange(response.val.l[i].m["date"].s, call.start_date, call.end_date)
          /\ \A i, j \in 1..Len(response.val.l) :
                i < j => CalendarDay(response.val.l[i].m["date"].s)
                             < CalendarDay(response.val.l[j].m["date"].s)

\* An exercise argument that lacks id, name or type, or whose type is outside
\* the allowed list.
LacksRequired(ex) ==
    \/ ex.t # "map"
    \/ ~({"id", "name", "type"} \subseteq DOMAIN ex.m)
    \/ ex.m["type"] \notin ValidTypes

\* The exercise ids of the plan the table held for the date of the call.
IdsBefore == {IdOf(ExercisesAt(before, call.date)[i]) :
                 i \in 1..Len(ExercisesAt(before, call.date))}

\* The call that ran last is one of the calls C17 lists as failing.
ListedFailure ==
    \/ /\ Called("set_workout_plan")
       /\ \/ call.date \in BadDates
          \/ call.arg.t # "map"
          \/ "day_name" \notin DOMAIN call.arg.m
          \/ "exercises" \notin DOMAIN call.arg.m
          \/ call.arg.m["exercises"].t # "list"
          \/ \E i \in 1..Len(call.arg.m["exercises"].l) :
                 LacksRequired(call.arg.m["exercises"].l[i])
    \/ /\ Called("add_exercise")
       /\ \/ LacksRequired(call.arg)
          \/ call.date \notin DOMAIN before
          \/ call.arg.m["id"] \in IdsBefore
    \/ /\ Called("update_exercise") \/ Called("remove_exercise")
       /\ \/ call.date \notin DOMAIN before
          \/ PyStr(call.exercise_id) \notin IdsBefore
    \/ /\ Called("update_plan_metadata")
       /\ \/ call.date \notin DOMAIN before
          \/ ~(DOMAIN call.arg.m \subseteq AllowedFields)
    \/ /\ Called("delete_workout_plan")
       /\ call.date \notin DOMAIN before

ExercisesBefore == ExercisesAt(before, call.date)
ExercisesAfter == ExercisesAt(workout_plans, call.date)

\* The list l without its element at index k (from 1).
Dropped(l, k) == SubSeq(l, 1, k - 1) \o SubSeq(l, k + 1, Len(l))

\* A successful call of add_exercise left the new exercise at index k (from 0)
\* of a plan that is otherwise as before, and returned the new count.
AddedAt(k) ==
    /\ Len(ExercisesAfter) = Len(ExercisesBefore) + 1
    /\ k \in 0..Len(ExercisesBefore)
    /\ ExercisesAfter[k + 1] = call.arg
    /\ Dropped(ExercisesAfter, k + 1) = ExercisesBefore
    /\ response.val.m["total_exercises"] = PyInt(Len(ExercisesBefore) + 1)

\* C18 as stated: a successful add_exercise leaves the new exercise at index
\* `position` when a position is given and last when position is None; the
\* plan has one more exercise, the earlier ones keep content and order, and
\* total_exercises is the previous count plus one.
C18_AddAtPosition ==
    (Called("add_exercise") /\ response.ok) =>
        IF call.position = PyNone THEN AddedAt(Len(ExercisesBefore))
        ELSE AddedAt(call.position.i)

\* The index list.insert(position, x) gives x in a list of n elements.
InsertIndex(position, n) ==
    IF position > n THEN n
    ELSE IF position >= 0 THEN position
    ELSE IF n + position >= 0 THEN n + position
    ELSE 0

\* C18 amended: the new exercise is at index `position` when
\* 0 <= position <= previous count, last when position is None or greater
\* than the previous count, and a negative position counts from the end of the
\* previous list (not before the beginning); count, order of the earlier
\* exercises and total_exercises as stated.
C18_AddAtInsertIndex ==
    (Called("add_exercise") /\ response.ok) =>
        IF call.position = PyNone THEN AddedAt(Len(ExercisesBefore))
        ELSE AddedAt(InsertIndex(call.position.i, Len(ExercisesBefore)))

C18_Witness ==
    /\ Called("add_exercise")
    /\ response.ok
    /\ call.position = PyInt(1)
    /\ ExercisesBefore = <<ExA, ExB>>
    /\ ExercisesAfter = <<ExA, ExC, ExB>>
    /\ response.val.m["total_exercises"] = PyInt(3)

\* C19: a successful remove_exercise removes exactly the exercise with that
\* id: remaining_exercises is the previous count minus one, no exercise with
\* that id remains, and the other exercises keep content and order.
C19_RemoveExactlyOne ==
    (Called("remove_exercise") /\ response.ok) =>
        /\ response.val.m["remaining_exercises"] = PyInt(Len(ExercisesBefore) - 1)
        /\ \A i \in 1..Len(ExercisesAfter) :
              IdOf(ExercisesAfter[i]) # PyStr(call.exercise_id)
        /\ \E k \in 1..Len(ExercisesBefore) :
              /\ IdOf(ExercisesBefore[k]) = PyStr(call.exercise_id)
              /\ ExercisesAfter = Dropped(ExercisesBefore, k)

\* The dict after has the keys of the dict was and of updates, the values of
\* updates on the keys updates names, and the values of was on all others.
OnlyNamedChanged(was, updates, after) ==
    /\ DOMAIN after = DOMAIN was \cup DOMAIN updates
    /\ \A f \in DOMAIN updates : after[f] = updates[f]
    /\ \A f \in DOMAIN was \ DOMAIN updates : after[f] = was[f]

\* Every field of the plan of the call's date but `exercises` is as before.
PlanFieldsUnchanged ==
    OnlyNamedChanged(PlanAt(before, call.date).m,
                     [f \in {"exercises"} |-> PyList(ExercisesAfter)],
                     PlanAt(workout_plans, call.date).m)

\* C20: a successful update_exercise changes only the fields named in
\* `updates` on the exercise with that id, and a successful
\* update_plan_metadata changes only the named plan-level fields; every other
\* exercise, the number and order of exercises, every other field of the plan
\* and the plans of all other dates are unchanged.
C20_PartialUpdateFrame ==
    /\ (Called("update_exercise") /\ response.ok) =>
          /\ Len(ExercisesAfter) = Len(ExercisesBefore)
          /\ \E k \in 1..Len(ExercisesBefore) :
                /\ IdOf(ExercisesBefore[k]) = PyStr(call.exercise_id)
                /\ OnlyNamedChanged(ExercisesBefore[k].m, call.arg.m, ExercisesAfter[k].m)
                /\ \A i \in 1..Len(ExercisesBefore) :
                      i # k => ExercisesAfter[i] = ExercisesBefore[i]
          /\ PlanFieldsUnchanged
          /\ OtherDatesUnchanged(call.date)
    /\ (Called("update_plan_metadata") /\ response.ok) =>
          /\ DOMAIN call.arg.m \subseteq AllowedFields
          /\ OnlyNamedChanged(PlanAt(before, call.date).m, call.arg.m,
                              PlanAt(workout_plans, call.date).m)
          /\ ExercisesAfter = ExercisesBefore
          /\ OtherDatesUnchanged(call.date)

C20_Witness ==
    /\ Called("update_exercise")
    /\ response.ok
    /\ call.arg = U_Sets
    /\ call.exercise_id = <<"b">>
    /\ ExercisesBefore = <<ExA, ExB>>
    /\ ExercisesAfter[1] = ExA
    /\ ExercisesAfter[2].m["target_sets"] = PyInt(4)
    /\ ExercisesAfter[2].m["name"] = ExB.m["name"]
    /\ DOMAIN workout_plans \ {call.date} # {}

\* The plan ingest_training_program has to store for a date of its input: the
\* transformed plan when transform_blocks is true and the plan has `blocks`,
\* the plan as given otherwise.
PlanToIngest(d) ==
    IF call.transform_blocks /\ "blocks" \in DOMAIN call.plans[d].m
    THEN AsPyPlan(_transform_block_plan(call.plans[d].m).val)
    ELSE call.plans[d]

\* The date of the input has a valid key and a non-empty exercises list.
Ingestible(d) ==
    /\ strptime(d).ok
    /\ "exercises" \in DOMAIN PlanToIngest(d).m
    /\ Len(PlanToIngest(d).m["exercises"].l) > 0

\* The dates the response lists as stored and as failed.
SuccessDates == response.val.m["success_dates"].l
FailedDates == [i \in 1..Len(response.val.m["failed"].l) |-> response.val.m["failed"].l[i].m["date"]]

\* The elements of a list.
Elements(l) == {l[i] : i \in 1..Len(l)}

UploadedLog == (D_0201 :> A_Done) @@ (D_0210 :> A_Partly)

\* C22: no sequence of MCP tool calls creates, changes or deletes a
\* workout_logs row, and get_workout_logs returns, in date order, the stored
\* log of each date in the requested range as it was uploaded.
C22_LogsReadOnly ==
    /\ workout_logs = StoredLogs
    /\ Called("get_workout_logs") =>
          /\ response.ok
          /\ {response.val.l[i].m["date"] : i \in 1..Len(response.val.l)}
                = {PyStr(d) : d \in {e \in DOMAIN UploadedLog :
                                        WithinRange(e, call.start_date, call.end_date)}}
          /\ \A i \in 1..Len(response.val.l) :
                response.val.l[i].m["log"] = UploadedLog[response.val.l[i].m["date"].s]
          /\ \A i, j \in 1..Len(response.val.l) :
                i < j => CalendarDay(response.val.l[i].m["date"].s)
                             < CalendarDay(response.val.l[j].m["date"].s)

\* Both logs read after plans were written and deleted.
C22_Witness ==
    /\ Called("get_workout_logs")
    /\ Len(response.val.l) = 2
    /\ response.val.l[1].m["log"] = A_Done
    /\ response.val.l[2].m["log"] = A_Partly
    /\ D_0210 \in DOMAIN workout_plans
    /\ now = 3

----------------------------------------------------------------------------
(* Claims about the sync server (SpecSync) *)

\* The clock reading of the request that was answered last.
RequestTime == now - 1

SyncGet == request.endpoint = "sync_get"
SyncPost == request.endpoint = "sync_post"

\* A GET /api/workout/sync without last_sync_time, or with an empty one.
FullSync == SyncGet /\ ~Truthy(request.last_sync_time)

\* What a log says, whatever `_lastModified` it carries.
Content(log) == [k \in DOMAIN log.m \ {"_lastModified"} |-> log.m[k]]

\* The table holds for every uploaded date the log of the latest upload and
\* nothing else; an upload leaves the rows of other dates alone and answers
\* with the dates of its payload.
LastUploadStored ==
    /\ DOMAIN workout_logs = DOMAIN uploaded
    /\ \A d \in DOMAIN uploaded : json_loads(workout_logs[d].log_json) = uploaded[d]
    /\ SyncPost =>
          /\ \A d \in DOMAIN logs_before \ DOMAIN request.logs :
                workout_logs[d] = logs_before[d]
          /\ reply.appliedLogs = DOMAIN request.logs
          /\ \A d \in DOMAIN request.logs :
                /\ workout_logs[d].last_modified = reply.serverTime
                /\ workout_logs[d].last_modified_by = request.client_id

\* The dates a sync without last_sync_time looks at: those not more than
\* LogWindowDays before the day of the request.
InLogWindow(d) == StrLessEq(DateText(Minus(today(RequestTime), LogWindowDays)), d)

Instant(text) == CHOOSE t \in 0..MaxSyncTime : get_utc_now(t) = text

\* The dates of the rows written later than the instant of last_sync_time.
WrittenSince(rows, last_sync_time) ==
    {d \in DOMAIN rows : Instant(rows[d].last_modified) > Instant(last_sync_time)}

\* C24: a GET with last_sync_time = t returns exactly the plans and the logs
\* whose last_modified is an instant later than t, so a record written after
\* the response that carried t as serverTime is returned and a record not
\* written since is not; without last_sync_time every plan is returned.
C24_DeltaSync ==
    /\ SyncGet /\ Truthy(request.last_sync_time) =>
          /\ DOMAIN reply.plans = WrittenSince(workout_plans, request.last_sync_time.s)
          /\ DOMAIN reply.logs = WrittenSince(workout_logs, request.last_sync_time.s)
    /\ FullSync => DOMAIN reply.plans = DOMAIN workout_plans

\* C30: a client registered with a name keeps that name through every GET and
\* POST sync it makes, a sync changes nothing of a clients row but
\* last_seen_at, and a GET sync creates no clients row.
C30_RegistrationPreserved ==
    /\ \A id \in DOMAIN registered :
          Truthy(registered[id]) =>
             /\ id \in DOMAIN clients
             /\ clients[id].name = registered[id].s
    /\ SyncGet \/ SyncPost =>
          \A id \in DOMAIN clients_before :
             /\ id \in DOMAIN clients
             /\ clients[id].name = clients_before[id].name
             /\ id # request.client_id => clients[id] = clients_before[id]
    /\ SyncGet => DOMAIN clients = DOMAIN clients_before

----------------------------------------------------------------------------
(* Claims about block plans after partial updates (Spec) *)

\* The exercises of the blocks of a stored plan, one list per block.
BlockExercises(p) == [i \in 1..Len(p.m["blocks"].l) |-> p.m["blocks"].l[i].m["exercises"].l]

\* C28: a stored plan that has blocks (stored by ingest_training_program with
\* block transformation) keeps, through add_exercise, remove_exercise and
\* update_exercise, a flat exercises list equal to the concatenation in block
\* order of the exercises of its blocks.
C28_FlatMatchesBlocks ==
    \A d \in DOMAIN workout_plans :
       LET p == PlanAt(workout_plans, d)
       IN "blocks" \in DOMAIN p.m => p.m["exercises"].l = Flatten(BlockExercises(p))

----------------------------------------------------------------------------
(* Claims about the ingest script (SpecScript) *)

\* The fields the script's plan and the tool's plan share.
SharedPlanFields == {"day_name", "location", "phase", "total_duration_min", "exercises"}

\* C29: for every block-format plan, transform_plan of the ingest script
\* returns the same day_name, location, phase, total_duration_min and the same
\* flat list of exercises as _transform_block_plan of the tool server.
C29_ScriptMatchesTool ==
    pc = "both" =>
       /\ script_plan.ok = plan.ok
       /\ plan.ok => \A k \in SharedPlanFields : script_plan.val[k] = plan.val[k]

----------------------------------------------------------------------------
(* Claims about calls that run at the same time (SpecRace) *)

\* The call of session s is over.
CallOver(s) == session[s].pc = "done"

\* The call of session s is a partial update that returned success: True.
PartialSucceeded(s) ==
    /\ CallOver(s)
    /\ session[s].call.tool \in PartialUpdates
    /\ session[s].outcome.ok
    /\ session[s].outcome.val.m["success"] = PyTrue

\* The row session s makes of the plan it read: its modification applied to
\* its snapshot, with the time it took.
Modified(s) ==
    ToolOutcome(session[s].call, session[s].snapshot, session[s].stamp).rows[RaceDate]

\* Session e wrote first and session l second, and l had read the plan when
\* e wrote: both read before either wrote.
BothReadFirst(e, l) ==
    /\ session[e].seq = 1
    /\ session[l].seq = 2
    /\ l \in session[e].pending

\* What the call of session l makes of the table session e left.
Merged(e, l) == ToolOutcome(session[l].call, session[e].after, session[l].stamp)

\* C25: when two partial updates of one date both read the plan before either
\* writes, both report success, and once both are over the stored plan is the
\* later writer's modification of the snapshot it read, without the earlier
\* writer's modification.
C25_LaterWriterWins ==
    \A e, l \in Sessions :
       (/\ BothReadFirst(e, l)
        /\ session[e].call.tool \in PartialUpdates
        /\ session[l].call.tool \in PartialUpdates)
       => /\ PartialSucceeded(e)
          /\ PartialSucceeded(l)
          /\ session[l].snapshot = session[e].snapshot
          /\ RaceDate \in DOMAIN workout_plans
          /\ workout_plans[RaceDate] = Modified(l)
          /\ (session[e].call # session[l].call /\ Merged(e, l).response.ok)
                => PlanAt(workout_plans, RaceDate) # PlanAt(Merged(e, l).rows, RaceDate)

\* An exercise was added and written first, the day was renamed and written
\* second, both from the plan as it was: the stored plan has the new name and
\* the two exercises it had.
C25_Witness ==
    /\ BothReadFirst("s1", "s2")
    /\ session["s1"].call.tool = "add_exercise"
    /\ session["s2"].call.tool = "update_plan_metadata"
    /\ PartialSucceeded("s1")
    /\ PartialSucceeded("s2")
    /\ ExercisesAt(session["s1"].after, RaceDate) = <<ExA, ExB, ExC>>
    /\ ExercisesAt(workout_plans, RaceDate) = <<ExA, ExB>>
    /\ PlanAt(workout_plans, RaceDate).m["day_name"] = PyStr(M_Gym)

\* C26: a client that passes the serverTime of its previous response is sent
\* every plan write of an MCP tool: every row that was in the table when the
\* client's last sync read it has been returned to the client with its
\* last_modified.  A row that sync did not return is older than the serverTime
\* the client passes from then on.
C26_NoWriteMissed ==
    \A d \in DOMAIN workout_plans \ unsynced :
       <<d, workout_plans[d].last_modified>> \in delivered

\* C27: a partial update that returns success: True leaves, when its write
\* completes, a stored plan for the date that holds its modification,
\* whatever the other session did between its read and its write.
C27_SuccessIsStored ==
    \A s \in Sessions :
       PartialSucceeded(s) =>
          /\ RaceDate \in DOMAIN session[s].after
          /\ session[s].after[RaceDate] = Modified(s)

====
